---- MODULE Spec2Model ----
(***************************************************************************)
(* A model of gowebmail's ingestion, storage and fanout pipeline:          *)
(*   - the SQLite store (storage.SQLiteStorage and its schema),            *)
(*   - the SMTP session that parses, stamps and saves a message,           *)
(*   - the WebSocket hub (api.WebSocketHub and its clients).               *)
(*   - the HTTP handlers that list, search, fetch and delete messages,     *)
(*   - the retention manager and the shutdown sequence of main.            *)
(* Spec is the store with its callers; IngestSpec is the SMTP path up to   *)
(* the arrival event; PageSpec and SearchSpec are the list and search      *)
(* requests on a changing store; HubSpec is the hub; EnvelopeSpec is the   *)
(* envelope of a session; WriterSpec is the connection pool under its      *)
(* writers; ReadSpec and StoredSpec are the reads beside the writes;       *)
(* DeleteApiSpec is the delete requests; RetentionSpec is the retention    *)
(* manager; ShutdownSpec is the process from start to exit; ParseSpec is   *)
(* the parser on MIME messages; NotifySpec is the events from the store to *)
(* a subscriber; SweepSpec is the sweeps under every retention setting.    *)
(***************************************************************************)
EXTENDS Integers, Sequences, FiniteSets, TLC

VARIABLES
    now,        \* the wall clock read by time.Now()
    db,         \* the committed content of the SQLite database
    sess,       \* per SMTP session: position inside Session.Data and its email
    savedIds,   \* history: the ids returned by successful SaveEmail calls, in order
    last,       \* history: the last store operation, its input, result and pre-state
    hasFTS5,    \* SQLiteStorage.hasFTS5, decided once by initSchema
    onNewMail,  \* smtp.Server.onNewMail is set (SetNewMailCallback was called)
    pending,    \* the goroutines "go s.server.onNewMail(email)" that have not run yet
    published,  \* history: the arrival events handed to WebSocketHub.Broadcast
    resp,       \* history: the response to a list or search request made since
                \* the store last changed, with what was asked
    hubRunning, \* the goroutine of WebSocketHub.Run has been started
    shutdown,   \* WebSocketHub.Shutdown has been called
    clients,    \* WebSocketHub.clients
    broadcast,  \* WebSocketHub.broadcast, the hub's buffered channel
    send,       \* per client: WebSocketClient.send, its buffered channel
    closed,     \* per client: close(client.send) has been executed
    cstate,     \* per client: position of its connection (ServeWS, pumps)
    delivered,  \* history: per client, the events writePump wrote to the connection
    received,   \* history: per client, the events Run placed on client.send
    nextEv,     \* history: number of Broadcast calls made so far
    accepted,   \* history: the events Broadcast placed on the hub channel, in order
    dropped,    \* history: the events Broadcast discarded
    handled,    \* history: per event Run took from the hub channel, what Run found
    closeCount, \* history: per client, how many times close(client.send) ran
    conns,      \* who holds a connection of the sql.DB pool
    wr,         \* per caller of the store: its write in progress
    get,        \* the GetEmail call in progress, between its two statements
    mgr,        \* retention.Manager: position of Start, its channels and ticker
    main,       \* position of main
    mime        \* the call of Parser.Parse on a MIME message: its input and result between the signal and the end of the process

storeVars == <<now, db, sess, savedIds, last, hasFTS5, onNewMail, pending, published, resp>>
\* What the store's own operations leave alone.
apiVars == <<hasFTS5, onNewMail, pending, published, resp>>
hubVars == <<hubRunning, shutdown, clients, broadcast, send, closed, cstate, delivered,
             received, nextEv, accepted, dropped, handled, closeCount>>
\* The goroutines around the store and their shared resources.
procVars == <<conns, wr, get, mgr, main, mime>>
vars == <<now, db, sess, savedIds, last, hasFTS5, onNewMail, pending, published, resp,
          hubRunning, shutdown, clients, broadcast, send,
          closed, cstate, delivered, received, nextEv, accepted, dropped, handled,
          closeCount, conns, wr, get, mgr, main, mime>>

(***************************************************************************)
(* Bounds of the model.                                                    *)
(***************************************************************************)
MaxTime == 1
MaxId == 3
MaxKeep == 2
MaxSweepTime == 2
MaxEvents == 4
MaxRcpt == 2
MaxText == 4
MaxParts == 2
\* The capacities of the hub channel and of a client's send channel, 256 in
\* the program, scaled down.
BroadcastCap == 2
SendCap == 2

Sessions == {"s1", "s2"}
Clients == {"c1", "c2"}

Max(a, b) == IF a >= b THEN a ELSE b

RECURSIVE SetMax(_)
SetMax(S) == IF S = {} THEN 0
             ELSE LET x == CHOOSE y \in S : TRUE IN Max(x, SetMax(S \ {x}))

\* The rows of a set, as a sequence in ascending id (rowid) order.
RECURSIVE ById(_)
ById(S) == IF S = {} THEN <<>>
           ELSE LET m == CHOOSE r \in S : \A q \in S : r.id <= q.id
                IN <<m>> \o ById(S \ {m})

(***************************************************************************)
(* Text. A string is a sequence of characters.                             *)
(***************************************************************************)
\* ASCII lower case, as SQLite's LIKE and the unicode61 tokenizer fold it.
Lower(c) ==
    CASE c = "A" -> "a" [] c = "C" -> "c" [] c = "N" -> "n"
      [] c = "O" -> "o" [] c = "T" -> "t" [] OTHER -> c

LowerText(t) == [i \in 1..Len(t) |-> Lower(t[i])]

\* The characters of which the unicode61 tokenizer builds tokens.
IsAlnum(c) == Lower(c) \in {"a", "c", "d", "e", "f", "g", "n", "o", "q", "r", "t", "x", "y"}

\* sub occurs in t, letter case ignored.
Contains(t, sub) ==
    \E i \in 1..(Len(t) - Len(sub) + 1) :
        LowerText(SubSeq(t, i, i + Len(sub) - 1)) = LowerText(sub)

\* The LIKE operator of SQLite: % stands for any run of characters, _ for
\* any one character, and ASCII letters match in either case.
RECURSIVE Like(_, _)
Like(pat, t) ==
    IF pat = <<>> THEN t = <<>>
    ELSE IF Head(pat) = "%"
    THEN Like(Tail(pat), t) \/ (t # <<>> /\ Like(pat, Tail(t)))
    ELSE /\ t # <<>>
         /\ Head(pat) = "_" \/ Lower(Head(pat)) = Lower(Head(t))
         /\ Like(Tail(pat), Tail(t))

\* "%" + s + "%"
LikePattern(s) == <<"%">> \o s \o <<"%">>

\* json.Marshal of a []string: null for the nil slice, else the quoted
\* elements between brackets.
RECURSIVE JsonElements(_)
JsonElements(list) ==
    IF list = <<>> THEN <<>>
    ELSE <<"\"">> \o Head(list) \o <<"\"">>
         \o (IF Len(list) > 1 THEN <<",">> ELSE <<>>) \o JsonElements(Tail(list))

JsonMarshal(list) ==
    IF list = <<>> THEN <<"n", "u", "l", "l">>
    ELSE <<"[">> \o JsonElements(list) \o <<"]">>

\* json.Unmarshal into a []string, for texts json.Marshal made of addresses
\* without quotes or backslashes: the runs between quotes, in order.
RECURSIVE JsonStrings(_, _, _)
JsonStrings(t, inString, cur) ==
    IF t = <<>> THEN <<>>
    ELSE IF Head(t) = "\""
    THEN IF inString THEN <<cur>> \o JsonStrings(Tail(t), FALSE, <<>>)
         ELSE JsonStrings(Tail(t), TRUE, <<>>)
    ELSE IF inString THEN JsonStrings(Tail(t), TRUE, Append(cur, Head(t)))
    ELSE JsonStrings(Tail(t), FALSE, cur)

JsonUnmarshal(t) == JsonStrings(t, FALSE, <<>>)

\* The tokens the unicode61 tokenizer makes of a text: its maximal runs of
\* letters and digits, in lower case.
RECURSIVE Tokenize(_, _)
Tokenize(t, cur) ==
    IF t = <<>> THEN (IF cur = <<>> THEN {} ELSE {cur})
    ELSE IF IsAlnum(Head(t)) THEN Tokenize(Tail(t), Append(cur, Lower(Head(t))))
    ELSE (IF cur = <<>> THEN {} ELSE {cur}) \cup Tokenize(Tail(t), <<>>)

Tokens(t) == Tokenize(t, <<>>)

(***************************************************************************)
(* The decoder, as far as the store's callers need it: Parser.Parse keeps  *)
(* of every attachment the metadata only.                                  *)
(***************************************************************************)
\* A part captured by parsePart: a *storage.Attachment with its payload.
RawAttachment == [type |-> "Attachment", Filename |-> "f", Size |-> 1, Data |-> "d"]

\* The envelope of a session that has taken MAIL FROM:<e> and RCPT TO:<r>.
EnvFrom == <<"e">>
EnvTo == <<<<"r">>>>

\* The messages read from r by Data: one without Message-ID, From and To
\* headers, one with an attachment, one plain; and one that does not parse.

WellFormed ==
    {[ok |-> TRUE,
      MessageID |-> "", From |-> <<>>, To |-> <<>>,
      Subject |-> <<"c", "a", "t">>, BodyPlain |-> <<>>, attachments |-> <<>>],
     [ok |-> TRUE,
      MessageID |-> "a", From |-> <<"f">>, To |-> <<<<"q">>, <<"r">>>>,
      Subject |-> <<"N", "O", "T">>, BodyPlain |-> <<"d", "o", "g">>,
      attachments |-> <<RawAttachment>>],
     [ok |-> TRUE,
      MessageID |-> "b", From |-> <<"e">>, To |-> <<<<"q">>>>,
      Subject |-> <<"d", "o", "g">>, BodyPlain |-> <<"x", "-", "y">>,
      attachments |-> <<>>]}

Malformed ==
    [ok |-> FALSE,
     MessageID |-> "", From |-> <<>>, To |-> <<>>,
     Subject |-> <<>>, BodyPlain |-> <<>>, attachments |-> <<>>]

RawMessages == WellFormed \cup {Malformed}

\* Parse, lines "Convert attachments to metadata": the value appended to
\* email.Attachments is a storage.AttachmentMeta, without Data.
ToMeta(att) == [type |-> "AttachmentMeta", ID |-> 0,
                Filename |-> att.Filename, Size |-> att.Size]

\* Parse: mail.ReadMessage or message.Read fails on a message that is not
\* well formed; else the headers and the body are copied.
ParseFails(raw) == ~raw.ok

Parse(raw) ==
    [MessageID |-> raw.MessageID,
     From |-> raw.From,
     To |-> raw.To,
     Subject |-> raw.Subject,
     BodyPlain |-> raw.BodyPlain,
     ReceivedAt |-> 0,
     Attachments |-> [i \in 1..Len(raw.attachments) |-> ToMeta(raw.attachments[i])]]

NoEmail == [MessageID |-> "", From |-> <<>>, To |-> <<>>, Subject |-> <<>>,
            BodyPlain |-> <<>>, ReceivedAt |-> 0, Attachments |-> <<>>]

\* Data, "Set envelope data if not present in headers".
WithEnvelopeOnly(email, from, to) == [email EXCEPT !.From = from, !.To = to]
WithEnvelope(email, from, to) ==
    [email EXCEPT !.From = IF @ = <<>> THEN from ELSE @,
                  !.To = IF Len(@) = 0 THEN to ELSE @]

(***************************************************************************)
(* The database.                                                           *)
(***************************************************************************)
\* DSN "?_journal_mode=WAL&_busy_timeout=5000": the foreign_keys pragma is
\* not switched on, so ON DELETE CASCADE of the schema is not enforced.
ForeignKeys == FALSE

EmptyDB == [emails |-> {}, attachments |-> {}, fts |-> {}, seq |-> 0, attSeq |-> 0]

\* id INTEGER PRIMARY KEY AUTOINCREMENT: one more than the largest id the
\* table ever held (sqlite_sequence), never less than the largest present.
NextRowIdReuse(d) == SetMax({r.id : r \in d.emails}) + 1
NextRowId(d) == Max(d.seq, SetMax({r.id : r \in d.emails})) + 1

\* message_id TEXT UNIQUE: email.MessageID is a Go string, bound as TEXT (never
\* NULL), so the empty string takes part in the constraint like any other.
UniqueOK(d, email) == \A r \in d.emails : r.message_id # email.MessageID

\* Trigger emails_ai of fts5Schema, present when the FTS5 schema was created:
\* the new row's four text columns enter the index under its id.
EmailsAI(d, row) ==
    IF hasFTS5
    THEN [d EXCEPT !.fts = @ \cup {[rowid |-> row.id, subject |-> row.subject,
                                    from_address |-> row.from_address,
                                    to_addresses |-> row.to_addresses,
                                    body_plain |-> row.body_plain]}]
    ELSE d

\* Trigger emails_ad, "DELETE FROM emails_fts WHERE rowid = old.id", which runs
\* AFTER DELETE. emails_fts is declared with content='emails': it holds no
\* copy of the columns and finds the row to remove, and the text to take out
\* of the index, in emails, where the row no longer is.
EmailsAD(d, id) ==
    IF hasFTS5 /\ \E r \in d.emails : r.id = id
    THEN [d EXCEPT !.fts = {e \in @ : e.rowid # id}]
    ELSE d

\* The INSERT with the read column bound to true instead of email.Read.
InsertEmailAsRead(d, email) ==
    LET row == [id |-> NextRowId(d),
                message_id |-> email.MessageID,
                from_address |-> email.From,
                to_addresses |-> JsonMarshal(email.To),
                subject |-> email.Subject,
                body_plain |-> email.BodyPlain,
                received_at |-> email.ReceivedAt,
                read |-> TRUE]
    IN EmailsAI([d EXCEPT !.emails = @ \cup {row}, !.seq = NextRowId(d)], row)

\* The INSERT of SaveEmail. The parser builds the Email without setting Read,
\* so the value bound to the read column, email.Read, is false.
InsertEmail(d, email) ==
    LET row == [id |-> NextRowId(d),
                message_id |-> email.MessageID,
                from_address |-> email.From,
                to_addresses |-> JsonMarshal(email.To),
                subject |-> email.Subject,
                body_plain |-> email.BodyPlain,
                received_at |-> email.ReceivedAt,
                read |-> FALSE]
    IN EmailsAI([d EXCEPT !.emails = @ \cup {row}, !.seq = NextRowId(d)], row)

\* interface{}(&att).(*Attachment): att is an AttachmentMeta, so the dynamic
\* type of &att is *AttachmentMeta and the assertion yields ok = false.
AssertedAttachmentAlways(att) == TRUE
AssertedAttachment(att) == att.type = "Attachment"

InsertAttachment(d, emailID, att) ==
    [d EXCEPT !.attachments = @ \cup {[id |-> d.attSeq + 1,
                                       email_id |-> emailID,
                                       filename |-> att.Filename,
                                       size |-> att.Size,
                                       data |-> IF "Data" \in DOMAIN att
                                                THEN att.Data ELSE ""]},
              !.attSeq = d.attSeq + 1]

\* The loop "for _, att := range email.Attachments" of SaveEmail.
RECURSIVE InsertAttachments(_, _, _)
InsertAttachments(d, emailID, atts) ==
    IF atts = <<>> THEN d
    ELSE InsertAttachments(
             IF AssertedAttachment(Head(atts))
             THEN InsertAttachment(d, emailID, Head(atts)) ELSE d,
             emailID, Tail(atts))

\* How many tx.Exec calls of the attachment loop run.
AttachmentExecs(atts) ==
    Cardinality({i \in 1..Len(atts) : AssertedAttachment(atts[i])})

\* defer tx.Rollback(): the transaction's work is discarded.
RollbackKeepsWork(before, work) == work
Rollback(before, work) == before

\* Where an I/O or engine failure may strike inside SaveEmail.
FailPoints == {"none", "begin", "insert", "lastid", "attachment", "commit"}

\* SaveEmail as a whole: the database after it, the id and the error returned.
SaveEmailOutcome(d, email, fail) ==
    IF fail = "begin" THEN [db |-> d, id |-> 0, err |-> "error"]
    ELSE IF fail = "insert" \/ ~UniqueOK(d, email)
    THEN [db |-> Rollback(d, d), id |-> 0, err |-> "error"]
    ELSE LET w1 == InsertEmail(d, email)
             emailID == NextRowId(d)
             w2 == InsertAttachments(w1, emailID, email.Attachments)
         IN IF fail = "lastid"
            THEN [db |-> Rollback(d, w1), id |-> 0, err |-> "error"]
            ELSE IF fail = "attachment" /\ AttachmentExecs(email.Attachments) > 0
            THEN [db |-> Rollback(d, w1), id |-> 0, err |-> "error"]
            ELSE IF fail = "commit"
            THEN [db |-> Rollback(d, w2), id |-> 0, err |-> "error"]
            ELSE [db |-> w2, id |-> emailID, err |-> ""]

\* GetEmail's two statements: "SELECT ... FROM emails WHERE id = ?" and
\* "SELECT ... FROM attachments WHERE email_id = ?".
SelectEmail(d, id) == {r \in d.emails : r.id = id}
SelectAttachments(d, id) == ById({a \in d.attachments : a.email_id = id})

\* GetEmail's Scan calls: the email of a row and of attachment rows.
ScanEmail(r, rows) ==
    [err |-> "", ID |-> r.id,
     email |-> [MessageID |-> r.message_id,
                From |-> r.from_address,
                To |-> JsonUnmarshal(r.to_addresses),
                Subject |-> r.subject,
                BodyPlain |-> r.body_plain,
                ReceivedAt |-> r.received_at,
                Attachments |->
                    [i \in 1..Len(rows) |->
                        [type |-> "AttachmentMeta", ID |-> rows[i].id,
                         Filename |-> rows[i].filename,
                         Size |-> rows[i].size]]]]

ErrNotFound == [err |-> "NotFound", email |-> NoEmail, ID |-> 0]

\* GetEmail when no other statement runs between its two: the row, and the
\* metadata of the attachment rows that carry its id.
GetEmail(d, id) ==
    IF SelectEmail(d, id) = {}
    THEN ErrNotFound
    ELSE ScanEmail(CHOOSE q \in SelectEmail(d, id) : TRUE, SelectAttachments(d, id))

GetAttachment(d, id) ==
    IF \A a \in d.attachments : a.id # id
    THEN [err |-> "NotFound", Filename |-> "", Data |-> ""]
    ELSE LET a == CHOOSE q \in d.attachments : q.id = id
         IN [err |-> "", Filename |-> a.filename, Data |-> a.data]

\* DELETE FROM emails WHERE ...: the rows go; attachment rows go with them
\* only when the engine enforces the foreign key.
RECURSIVE EmailsADAll(_, _)
EmailsADAll(d, ids) ==
    IF ids = {} THEN d
    ELSE LET id == CHOOSE i \in ids : TRUE
         IN EmailsADAll(EmailsAD(d, id), ids \ {id})

DeleteRows(d, rows) ==
    EmailsADAll(
        [d EXCEPT !.emails = @ \ rows,
                  !.attachments = IF ForeignKeys
                                  THEN {a \in @ : a.email_id \notin {r.id : r \in rows}}
                                  ELSE @],
        {r.id : r \in rows})

\* DELETE FROM emails WHERE received_at < ?, on timestamps in the order in
\* which they are stored.
OldRowsInclusive(d, before) == {r \in d.emails : r.received_at <= before}
OldRows(d, before) == {r \in d.emails : r.received_at < before}

\* SELECT id FROM emails ORDER BY received_at DESC LIMIT -1 OFFSET ?: the rows
\* after the first maxCount in an order that sorts by received_at only; rows
\* with equal received_at come in an order the statement does not fix.
\* A negative OFFSET counts as 0.
ExcessChoicesOldestKept(d, maxCount) ==
    {X \in SUBSET d.emails :
        /\ Cardinality(X) = Max(0, Cardinality(d.emails) - Max(0, maxCount))
        /\ \A x \in X, k \in d.emails \ X : x.received_at >= k.received_at}
ExcessChoices(d, maxCount) ==
    {X \in SUBSET d.emails :
        /\ Cardinality(X) = Max(0, Cardinality(d.emails) - Max(0, maxCount))
        /\ \A x \in X, k \in d.emails \ X : x.received_at <= k.received_at}

(***************************************************************************)
(* Listing and searching.                                                  *)
(***************************************************************************)
Min(a, b) == IF a <= b THEN a ELSE b

\* A time.Time pointer that is nil.
NoTime == -1

NoFilter == [From |-> <<>>, To |-> <<>>, Subject |-> <<>>, Since |-> NoTime, Until |-> NoTime]

\* ListEmails, "Apply filters": each predicate that is set adds an AND clause.
Matches(d, filter) ==
    {r \in d.emails :
        /\ filter.From # <<>> => Like(LikePattern(filter.From), r.from_address)
        /\ filter.To # <<>> => Like(LikePattern(filter.To), r.to_addresses)
        /\ filter.Subject # <<>> => Like(LikePattern(filter.Subject), r.subject)
        /\ filter.Since # NoTime => r.received_at >= filter.Since
        /\ filter.Until # NoTime => r.received_at <= filter.Until}

\* ORDER BY received_at DESC: the orders in which the engine may hand out the
\* rows; the statement names no second key, so rows with equal received_at
\* come in an order it does not fix.
OrderByReceivedAtDesc(rows) ==
    {q \in [1..Cardinality(rows) -> rows] :
        /\ \A i, j \in 1..Cardinality(rows) : i # j => q[i] # q[j]
        /\ \A i, j \in 1..Cardinality(rows) : i < j => q[i].received_at >= q[j].received_at}

\* LIMIT ? OFFSET ?: a negative LIMIT is no limit, a negative OFFSET is 0.
LimitOffset(q, limit, offset) ==
    LET from == Max(0, offset)
        upto == IF limit < 0 THEN Len(q) ELSE Min(Len(q), from + limit)
    IN SubSeq(q, from + 1, upto)

RowIds(q) == [i \in 1..Len(q) |-> q[i].id]

\* ListEmails: the results it may return.
ListEmails(d, filter, limit, offset) ==
    {[Emails |-> RowIds(LimitOffset(q, limit, offset)),
      Total |-> Cardinality(Matches(d, filter)),
      err |-> ""] : q \in OrderByReceivedAtDesc(Matches(d, filter))}

\* What FTS5 accepts as a query of one word: letters and digits that do not
\* spell one of its operators. Any other text of the model's alphabet is
\* refused as a syntax error or as an unknown column.
FtsOperators == {<<"A", "N", "D">>, <<"O", "R">>, <<"N", "O", "T">>}

FtsAccepts(query) ==
    /\ query # <<>>
    /\ \A i \in 1..Len(query) : IsAlnum(query[i])
    /\ query \notin FtsOperators

\* emails_fts MATCH ?: the index entries in which the word is a token of one
\* of the four columns.
FtsMatch(d, query) ==
    {e \in d.fts :
        LowerText(query) \in Tokens(e.subject) \cup Tokens(e.from_address)
                                \cup Tokens(e.to_addresses) \cup Tokens(e.body_plain)}

\* The fallback: subject LIKE ? OR from_address LIKE ? OR to_addresses LIKE ?
\* OR body_plain LIKE ?
LikeMatch(d, query) ==
    {r \in d.emails :
        \/ Like(LikePattern(query), r.subject)
        \/ Like(LikePattern(query), r.from_address)
        \/ Like(LikePattern(query), r.to_addresses)
        \/ Like(LikePattern(query), r.body_plain)}

\* SearchEmails: the results it may return. With FTS5 the rows are those of
\* emails joined to the matching index entries and the total is the number of
\* matching index entries. A query FTS5 refuses fails both statements: the
\* driver reports it either from Query, and SearchEmails returns the error, or
\* from rows.Next, whose error SearchEmails does not read, and then the failed
\* count leaves total = len(emails).
SearchEmails(d, query, limit, offset) ==
    IF hasFTS5
    THEN IF FtsAccepts(query)
         THEN LET rows == {r \in d.emails : \E e \in FtsMatch(d, query) : e.rowid = r.id}
              IN {[Emails |-> RowIds(LimitOffset(q, limit, offset)),
                   Total |-> Cardinality(FtsMatch(d, query)),
                   err |-> ""] : q \in OrderByReceivedAtDesc(rows)}
         ELSE {[Emails |-> <<>>, Total |-> 0, err |-> "error"],
               [Emails |-> <<>>, Total |-> 0, err |-> ""]}
    ELSE {[Emails |-> RowIds(LimitOffset(q, limit, offset)),
           Total |-> Cardinality(LikeMatch(d, query)),
           err |-> ""] : q \in OrderByReceivedAtDesc(LikeMatch(d, query))}

\* The limits of handleListEmails and handleSearchEmails.
DefaultLimit == 50
MinLimit == 1
MaxLimit == 100
\* math.MaxInt, of a build with 32-bit int.
MaxInt == 2147483647

\* strconv.Atoi of a query parameter: a number, or an error.
Atoi(value) == IF value.kind = "int" THEN [n |-> value.n, err |-> ""]
               ELSE [n |-> 0, err |-> "error"]

\* parseIntParam; value is r.URL.Query().Get(name).
parseIntParamNoMin(value, defaultValue, min, max) ==
    IF value.kind = "missing" THEN defaultValue
    ELSE IF Atoi(value).err # "" THEN defaultValue
    ELSE IF Atoi(value).n > max THEN max
    ELSE Atoi(value).n
parseIntParam(value, defaultValue, min, max) ==
    IF value.kind = "missing" THEN defaultValue
    ELSE IF Atoi(value).err # "" THEN defaultValue
    ELSE IF Atoi(value).n < min THEN min
    ELSE IF Atoi(value).n > max THEN max
    ELSE Atoi(value).n

\* time.Parse(time.RFC3339, ...) of the since and until parameters: the
\* filter field stays nil when the parameter is missing or does not parse.
ParseTime(value) == IF value.kind = "int" THEN value.n ELSE NoTime

\* handleSearchEmails, 'if query == ""'.
EmptyQueryNever(query) == FALSE
EmptyQuery(query) == query = <<>>

(***************************************************************************)
(* The store and its callers.                                              *)
(***************************************************************************)
NoOp == [op |-> "none", fail |-> "none", arg |-> 0, email |-> NoEmail, ret |-> 0, err |-> "",
         pre |-> EmptyDB]

NoResp == [op |-> "none"]

Callers == Sessions \cup {"api", "retention"}

NoWrite == [pc |-> "idle", op |-> "none", arg |-> 0, snap |-> EmptyDB]
NoGet == [pc |-> "idle", id |-> 0, row |-> {}, overlapped |-> FALSE,
          res |-> [err |-> "", email |-> NoEmail, ID |-> 0]]

\* config.Default, Retention: the policy is enabled, with a positive age
\* (one unit of the clock) and a positive count.
DefaultRetention == [Enabled |-> TRUE, MaxAge |-> 1, MaxCount |-> MaxKeep]

\* retention.NewManager on the configuration cfg.
NewManager(cfg) ==
    [pc |-> "new", tick |-> FALSE, stop |-> FALSE, cancelled |-> FALSE,
     running |-> 0, config |-> cfg]

\* No store call is in progress, and main waits for the signal; the manager
\* has been made on the configuration cfg.
InitCallsWith(cfg) ==
    /\ conns = {}
    /\ wr = [w \in Callers |-> NoWrite]
    /\ get = NoGet
    /\ mgr = NewManager(cfg)
    /\ main = [pc |-> "serving", smtpTimedOut |-> FALSE]

InitCalls == InitCallsWith(DefaultRetention)

\* The parser has not been called on a MIME message.
NoMime == [pc |-> "none"]

InitProc == InitCalls /\ mime = NoMime

\* A session between two messages, with the envelope it holds. raw is the
\* message of the Data call in progress, given is what Rcpt was called with
\* since the last Reset; both are history.
SessionWith(from, to) ==
    [pc |-> "idle", email |-> NoEmail, from |-> from, to |-> to,
     raw |-> Malformed, given |-> to]

\* The state after construction: storage.NewSQLiteStorage on a new file,
\* smtp.NewServer (onNewMail is nil) and api.NewServer; every session has
\* taken the commands that give it the envelope (from, to).
InitData(from, to) ==
    /\ now = 0
    /\ db = EmptyDB
    /\ sess = [s \in Sessions |-> SessionWith(from, to)]
    /\ savedIds = <<>>
    /\ last = NoOp
    /\ pending = {}
    /\ published = <<>>
    /\ resp = NoResp

InitRunWith(from, to) == InitData(from, to) /\ InitProc

InitRun == InitRunWith(EnvFrom, EnvTo)

\* A build of the SQLite driver without FTS5: initSchema's second Exec fails.
InitStore ==
    /\ InitRun
    /\ hasFTS5 = FALSE
    /\ onNewMail = FALSE

\* time.Now() never goes back; the clock of the model stops at limit.
TickTo(limit) ==
    /\ now < limit
    /\ now' = now + 1
    /\ UNCHANGED <<db, sess, savedIds, last>>
    /\ UNCHANGED apiVars
    /\ UNCHANGED hubVars
    /\ UNCHANGED procVars

Tick == TickTo(MaxTime)

\* Session.Data up to "email.ReceivedAt = time.Now()"; when Parse fails, Data
\* returns the error and the session goes on with its next command.
DataParse(s, raw) ==
    /\ sess[s].pc = "idle"
    /\ db.seq + Cardinality({t \in Sessions : sess[t].pc = "save"}) < MaxId
    /\ IF ParseFails(raw)
       THEN /\ last' = [op |-> "Parse", fail |-> "parse", arg |-> 0, email |-> NoEmail,
                        ret |-> 0, err |-> "error", pre |-> db]
            /\ UNCHANGED sess
       ELSE /\ sess' = [sess EXCEPT
                           ![s].pc = "save",
                           ![s].raw = raw,
                           ![s].email =
                               [WithEnvelope(Parse(raw), sess[s].from, sess[s].to)
                                    EXCEPT !.ReceivedAt = now]]
            /\ UNCHANGED last
    /\ UNCHANGED <<now, db, savedIds>>
    /\ UNCHANGED apiVars
    /\ UNCHANGED hubVars
    /\ UNCHANGED procVars

\* Data, after SaveEmail: "if err != nil { return ... }", then
\* "if s.server.onNewMail != nil { go s.server.onNewMail(email) }".
NotifiedAlways(err) == onNewMail
Notified(err) == err = "" /\ onNewMail

\* "email.ID = id": what the goroutine started for the callback holds.
NewMailDataUnset(email, id) ==
    [ID |-> 0, From |-> email.From, To |-> email.To, Subject |-> email.Subject,
     ReceivedAt |-> email.ReceivedAt]
NewMailData(email, id) ==
    [ID |-> id, From |-> email.From, To |-> email.To, Subject |-> email.Subject,
     ReceivedAt |-> email.ReceivedAt]

\* Session.Data from "s.server.storage.SaveEmail(email)" on. The transaction
\* holds the only connection of the pool (SetMaxOpenConns(1)), so no other
\* statement runs between its Begin and its Commit or Rollback.
SaveAndNotify(s, fail) ==
    /\ sess[s].pc = "save"
    /\ LET out == SaveEmailOutcome(db, sess[s].email, fail)
       IN /\ db' = out.db
          /\ savedIds' = IF out.err = "" THEN Append(savedIds, out.id) ELSE savedIds
          /\ last' = [op |-> "SaveEmail", fail |-> fail, arg |-> 0, email |-> sess[s].email,
                      ret |-> out.id, err |-> out.err, pre |-> db]
          /\ pending' = IF Notified(out.err)
                        THEN pending \cup {NewMailData(sess[s].email, out.id)}
                        ELSE pending
    /\ sess' = [sess EXCEPT ![s].pc = "idle", ![s].email = NoEmail,
                            ![s].raw = Malformed]
    /\ resp' = NoResp
    /\ UNCHANGED <<now, hasFTS5, onNewMail, published>>
    /\ UNCHANGED hubVars

DataSave(s, fail) ==
    /\ SaveAndNotify(s, fail)
    /\ UNCHANGED procVars

\* Session.Mail: MAIL FROM.
Mail(s, from) ==
    /\ sess[s].pc = "idle"
    /\ sess' = [sess EXCEPT ![s].from = from]
    /\ UNCHANGED <<now, db, savedIds, last>>
    /\ UNCHANGED apiVars
    /\ UNCHANGED hubVars
    /\ UNCHANGED procVars

\* Session.Rcpt: RCPT TO, "s.to = append(s.to, to)".
Rcpt(s, to) ==
    /\ sess[s].pc = "idle"
    /\ Len(sess[s].to) < MaxRcpt
    /\ sess' = [sess EXCEPT ![s].to = Append(@, to), ![s].given = Append(@, to)]
    /\ UNCHANGED <<now, db, savedIds, last>>
    /\ UNCHANGED apiVars
    /\ UNCHANGED hubVars
    /\ UNCHANGED procVars

\* Session.Reset: RSET, and the library's reset between two messages.
Reset(s) ==
    /\ sess[s].pc = "idle"
    /\ sess' = [sess EXCEPT ![s].from = <<>>, ![s].to = <<>>, ![s].given = <<>>]
    /\ UNCHANGED <<now, db, savedIds, last>>
    /\ UNCHANGED apiVars
    /\ UNCHANGED hubVars
    /\ UNCHANGED procVars

\* SQLiteStorage.DeleteEmail: what the call does to the store.
DeleteEmailRows(id, fail) ==
    /\ LET rows == {r \in db.emails : r.id = id}
           err == IF fail THEN "error" ELSE IF rows = {} THEN "NotFound" ELSE ""
       IN /\ db' = IF fail THEN db ELSE DeleteRows(db, rows)
          /\ last' = [op |-> "DeleteEmail", fail |-> IF fail THEN "exec" ELSE "none",
                      arg |-> id, email |-> NoEmail,
                      ret |-> 0, err |-> err, pre |-> db]
    /\ resp' = NoResp

DeleteEmail(id, fail) ==
    /\ DeleteEmailRows(id, fail)
    /\ UNCHANGED <<now, sess, savedIds, hasFTS5, onNewMail, pending, published>>
    /\ UNCHANGED hubVars
    /\ UNCHANGED procVars

\* SQLiteStorage.DeleteAllEmails: what the call does to the store.
DeleteAllEmailsRows(fail) ==
    /\ db' = IF fail THEN db ELSE DeleteRows(db, db.emails)
    /\ last' = [op |-> "DeleteAllEmails", fail |-> IF fail THEN "exec" ELSE "none",
                      arg |-> 0, email |-> NoEmail,
                ret |-> 0, err |-> IF fail THEN "error" ELSE "", pre |-> db]
    /\ resp' = NoResp

DeleteAllEmails(fail) ==
    /\ DeleteAllEmailsRows(fail)
    /\ UNCHANGED <<now, sess, savedIds, hasFTS5, onNewMail, pending, published>>
    /\ UNCHANGED hubVars
    /\ UNCHANGED procVars

\* SQLiteStorage.DeleteOldEmails: what the call does to the store.
DeleteOldEmailsRows(before, fail) ==
    /\ LET rows == OldRows(db, before)
       IN /\ db' = IF fail THEN db ELSE DeleteRows(db, rows)
          /\ last' = [op |-> "DeleteOldEmails", fail |-> IF fail THEN "exec" ELSE "none",
                      arg |-> before, email |-> NoEmail,
                      ret |-> IF fail THEN 0 ELSE Cardinality(rows),
                      err |-> IF fail THEN "error" ELSE "", pre |-> db]
    /\ resp' = NoResp

DeleteOldEmails(before, fail) ==
    /\ DeleteOldEmailsRows(before, fail)
    /\ UNCHANGED <<now, sess, savedIds, hasFTS5, onNewMail, pending, published>>
    /\ UNCHANGED hubVars
    /\ UNCHANGED procVars

\* SQLiteStorage.DeleteExcessEmails: what the call does to the store.
DeleteExcessEmailsRows(maxCount, fail) ==
    /\ \E rows \in ExcessChoices(db, maxCount) :
          /\ db' = IF fail THEN db ELSE DeleteRows(db, rows)
          /\ last' = [op |-> "DeleteExcessEmails", fail |-> IF fail THEN "exec" ELSE "none",
                      arg |-> maxCount,
                      email |-> NoEmail,
                      ret |-> IF fail THEN 0 ELSE Cardinality(rows),
                      err |-> IF fail THEN "error" ELSE "", pre |-> db]
    /\ resp' = NoResp

DeleteExcessEmails(maxCount, fail) ==
    /\ DeleteExcessEmailsRows(maxCount, fail)
    /\ UNCHANGED <<now, sess, savedIds, hasFTS5, onNewMail, pending, published>>
    /\ UNCHANGED hubVars
    /\ UNCHANGED procVars

(***************************************************************************)
(* The message parser on MIME structure. A body is a sequence of bytes,    *)
(* each a number in 0..255.                                                *)
(***************************************************************************)
\* The bytes the codecs name: carriage return, line feed, space, tab, "=".
Byte == [CR |-> 13, LF |-> 10, SP |-> 32, TAB |-> 9, EQ |-> 61]

\* The value of a byte in the alphabet of base64.StdEncoding, or -1.
B64Value(c) ==
    IF c >= 65 /\ c <= 90 THEN c - 65
    ELSE IF c >= 97 /\ c <= 122 THEN c - 97 + 26
    ELSE IF c >= 48 /\ c <= 57 THEN c - 48 + 52
    ELSE IF c = 43 THEN 62
    ELSE IF c = 47 THEN 63
    ELSE -1

\* The byte that stands for a value in 0..63.
B64Char(v) ==
    IF v < 26 THEN 65 + v
    ELSE IF v < 52 THEN 97 + (v - 26)
    ELSE IF v < 62 THEN 48 + (v - 52)
    ELSE IF v = 62 THEN 43
    ELSE 47

\* base64.StdEncoding.Encode: what a sender puts on the wire for a text.
RECURSIVE B64Encode(_)
B64Encode(t) ==
    IF t = <<>> THEN <<>>
    ELSE IF Len(t) = 1
    THEN <<B64Char(t[1] \div 4), B64Char((t[1] % 4) * 16), Byte.EQ, Byte.EQ>>
    ELSE IF Len(t) = 2
    THEN <<B64Char(t[1] \div 4),
           B64Char((t[1] % 4) * 16 + t[2] \div 16),
           B64Char((t[2] % 16) * 4), Byte.EQ>>
    ELSE <<B64Char(t[1] \div 4),
           B64Char((t[1] % 4) * 16 + t[2] \div 16),
           B64Char((t[2] % 16) * 4 + t[3] \div 64),
           B64Char(t[3] % 64)>> \o B64Encode(SubSeq(t, 4, Len(t)))

\* A sequence of bytes without its carriage returns and line feeds.
RECURSIVE WithoutNewlines(_)
WithoutNewlines(d) ==
    IF d = <<>> THEN <<>>
    ELSE IF Head(d) \in {Byte.CR, Byte.LF} THEN WithoutNewlines(Tail(d))
    ELSE <<Head(d)>> \o WithoutNewlines(Tail(d))

\* The quanta of four bytes of base64.StdEncoding.Decode, after the line
\* breaks were skipped: every quantum is four bytes of the alphabet, and the
\* last may end in one or two padding bytes. Bits left over in the last
\* quantum are not looked at (the encoding is not strict).
RECURSIVE B64Quanta(_)
B64Quanta(d) ==
    IF d = <<>> THEN [ok |-> TRUE, out |-> <<>>]
    ELSE IF Len(d) < 4 \/ B64Value(d[1]) < 0 \/ B64Value(d[2]) < 0
    THEN [ok |-> FALSE, out |-> <<>>]
    ELSE LET v1 == B64Value(d[1])
             v2 == B64Value(d[2])
             v3 == B64Value(d[3])
             v4 == B64Value(d[4])
             b1 == v1 * 4 + v2 \div 16
             b2 == (v2 % 16) * 16 + v3 \div 4
             b3 == (v3 % 4) * 64 + v4
         IN IF d[3] = Byte.EQ
            THEN [ok |-> d[4] = Byte.EQ /\ Len(d) = 4, out |-> <<b1>>]
            ELSE IF v3 < 0 THEN [ok |-> FALSE, out |-> <<>>]
            ELSE IF d[4] = Byte.EQ
            THEN [ok |-> Len(d) = 4, out |-> <<b1, b2>>]
            ELSE IF v4 < 0 THEN [ok |-> FALSE, out |-> <<>>]
            ELSE LET rest == B64Quanta(SubSeq(d, 5, Len(d)))
                 IN [ok |-> rest.ok, out |-> <<b1, b2, b3>> \o rest.out]

\* base64.StdEncoding.Decode: \r and \n are skipped; err is nil or a
\* CorruptInputError.
B64Decode(d) == B64Quanta(WithoutNewlines(d))

\* fromHex of mime/quotedprintable: the value of a hex digit, in either
\* case, or -1.
FromHex(c) ==
    IF c >= 48 /\ c <= 57 THEN c - 48
    ELSE IF c >= 65 /\ c <= 70 THEN c - 65 + 10
    ELSE IF c >= 97 /\ c <= 102 THEN c - 97 + 10
    ELSE -1

\* The hex digit, in upper case, of a value in 0..15.
ToHex(v) == IF v < 10 THEN 48 + v ELSE 65 + (v - 10)

\* Quoted-printable as a sender writes it, for a text of one line: "=" and
\* the bytes outside the printable range as =XX, and a space or tab at the
\* end of the line as =XX too.
RECURSIVE QPEncode(_)
QPEncode(t) ==
    IF t = <<>> THEN <<>>
    ELSE LET c == Head(t)
             literal == /\ c # Byte.EQ
                        /\ \/ c >= 33 /\ c <= 126
                           \/ c \in {Byte.SP, Byte.TAB} /\ Len(t) > 1
         IN (IF literal THEN <<c>> ELSE <<Byte.EQ, ToHex(c \div 16), ToHex(c % 16)>>)
            \o QPEncode(Tail(t))

\* bytes.TrimRightFunc(line, isQPDiscardWhitespace)
RECURSIVE TrimRight(_)
TrimRight(d) ==
    IF d = <<>> THEN <<>>
    ELSE IF d[Len(d)] \in {Byte.SP, Byte.TAB, Byte.CR, Byte.LF} THEN TrimRight(SubSeq(d, 1, Len(d) - 1))
    ELSE d

\* The loop of quotedprintable.Reader.Read over one line: =XX is a byte, an
\* "=" that is followed by something else is taken as a literal "=", an "="
\* with nothing after it is an error, and so is a control byte.
RECURSIVE QPLine(_)
QPLine(d) ==
    IF d = <<>> THEN [ok |-> TRUE, out |-> <<>>]
    ELSE IF Head(d) = Byte.EQ
    THEN IF Len(d) >= 3 /\ FromHex(d[2]) >= 0 /\ FromHex(d[3]) >= 0
         THEN LET rest == QPLine(SubSeq(d, 4, Len(d)))
              IN [ok |-> rest.ok,
                  out |-> <<FromHex(d[2]) * 16 + FromHex(d[3])>> \o rest.out]
         ELSE IF Len(d) >= 2
         THEN LET rest == QPLine(Tail(d))
              IN [ok |-> rest.ok, out |-> <<Byte.EQ>> \o rest.out]
         ELSE [ok |-> FALSE, out |-> <<>>]
    ELSE IF Head(d) # Byte.TAB /\ Head(d) < 128 /\ (Head(d) < Byte.SP \/ Head(d) > 126)
    THEN [ok |-> FALSE, out |-> <<>>]
    ELSE LET rest == QPLine(Tail(d))
         IN [ok |-> rest.ok, out |-> <<Head(d)>> \o rest.out]

\* io.ReadAll(quotedprintable.NewReader(...)) on data without a line break:
\* white space at the end is dropped, and so is an "=" that ends the data (a
\* soft line break), unless nothing comes before it.
QPDecode(d) ==
    LET line == TrimRight(d)
    IN IF line # <<>> /\ line[Len(line)] = Byte.EQ
       THEN IF Len(line) = 1 THEN [ok |-> FALSE, out |-> <<>>]
            ELSE QPLine(SubSeq(line, 1, Len(line) - 1))
       ELSE QPLine(line)

\* Parser.decodeContent: the data decoded as the header field names it, or
\* the data as it is when the field names nothing known or the decoding
\* fails. (The field is lower-cased and trimmed first; the model's messages
\* write it that way.)
decodeContent(data, encoding) ==
    IF encoding = "base64" /\ B64Decode(data).ok THEN B64Decode(data).out
    ELSE IF encoding = "quoted-printable" /\ QPDecode(data).ok
    THEN QPDecode(data).out
    ELSE data

\* entity.Body as message.Read of go-message hands it out: message.New has
\* already wrapped the body of every part that is no multipart in a decoder
\* for its Content-Transfer-Encoding, and leaves the header as it was. ok is
\* FALSE when reading the body fails.
EntityBody(entity) ==
    IF entity.mediaType.major = "multipart" THEN [ok |-> TRUE, out |-> entity.body]
    ELSE IF entity.encoding = "base64" THEN B64Decode(entity.body)
    ELSE IF entity.encoding = "quoted-printable" THEN QPDecode(entity.body)
    ELSE [ok |-> TRUE, out |-> entity.body]

\* "email.BodyPlain = text" written as "email.BodyPlain += text".
SetBodyAppending(old, text) == old \o text

\* email.BodyPlain = text, email.BodyHTML = text: the slot takes the text.
SetBody(old, text) == text

\* A nested multipart is not descended into.
NestedPartsNone(entity) == <<>>

\* The parts that mr.NextPart() yields for a multipart entity, in order.
NestedParts(entity) == entity.parts

\* The storage.Email that Parse fills, before it is given to the store.
NoMimeEmail == [BodyPlain |-> <<>>, BodyHTML |-> <<>>, Attachments |-> <<>>, Size |-> 0]

\* Parser.parsePart, and the loop over the parts of a multipart that
\* parsePart and parseBody both have. The result is the email as the part
\* left it, the attachments it returned, and ok = FALSE for an error.
RECURSIVE parsePart(_, _)
RECURSIVE parseParts(_, _)
parsePart(entity, email) ==
    LET isAttachment == \/ entity.disposition = "attachment"
                        \/ entity.disposition = "inline" /\ entity.filename # ""
        filename == IF entity.filename # "" THEN entity.filename
                    ELSE IF entity.name # "" THEN entity.name
                    ELSE "attachment"
        body == EntityBody(entity)
        data == decodeContent(body.out, entity.encoding)
    IN IF isAttachment
       THEN IF ~body.ok THEN [ok |-> FALSE, email |-> email, atts |-> <<>>]
            ELSE [ok |-> TRUE, email |-> email,
                  atts |-> <<[Filename |-> filename,
                              ContentType |-> entity.mediaType,
                              Size |-> Len(data), Data |-> data]>>]
       ELSE IF entity.mediaType.major = "text"
       THEN IF ~body.ok THEN [ok |-> FALSE, email |-> email, atts |-> <<>>]
            ELSE [ok |-> TRUE, atts |-> <<>>,
                  email |-> IF entity.mediaType.minor = "plain"
                            THEN [email EXCEPT !.BodyPlain = SetBody(@, data)]
                            ELSE IF entity.mediaType.minor = "html"
                            THEN [email EXCEPT !.BodyHTML = SetBody(@, data)]
                            ELSE email]
       ELSE IF entity.mediaType.major = "multipart"
       THEN parseParts(NestedParts(entity), email)
       ELSE [ok |-> TRUE, email |-> email, atts |-> <<>>]

parseParts(parts, email) ==
    IF parts = <<>> THEN [ok |-> TRUE, email |-> email, atts |-> <<>>]
    ELSE LET first == parsePart(Head(parts), email)
         IN IF ~first.ok THEN first
            ELSE LET rest == parseParts(Tail(parts), first.email)
                 IN [ok |-> rest.ok, email |-> rest.email,
                     atts |-> first.atts \o rest.atts]

\* Parser.parseBody: the parts of a multipart message, or the message as
\* its only part.
parseBody(entity, email) ==
    IF entity.mediaType.major = "multipart"
    THEN parseParts(entity.parts, email)
    ELSE parsePart(entity, email)

\* "Convert attachments to metadata" of Parse.
MimeMeta(atts) ==
    [i \in 1..Len(atts) |-> [Filename |-> atts[i].Filename,
                             ContentType |-> atts[i].ContentType,
                             Size |-> atts[i].Size]]

\* len(data) for a message: the bytes of its header and of its body, and
\* for a multipart those of its parts (each part's delimiter line counted
\* with the part's header).
RECURSIVE DataLen(_)
RECURSIVE DataLenAll(_)
DataLen(entity) ==
    IF entity.mediaType.major = "multipart"
    THEN Len(entity.head) + DataLenAll(entity.parts)
    ELSE Len(entity.head) + Len(entity.body)

DataLenAll(parts) ==
    IF parts = <<>> THEN 0 ELSE DataLen(Head(parts)) + DataLenAll(Tail(parts))

\* Parser.Parse from "Parse body" on, for a message whose header was read.
ParseMime(entity) ==
    LET r == parseBody(entity, NoMimeEmail)
    IN IF ~r.ok THEN [err |-> "failed to parse body", email |-> NoMimeEmail]
       ELSE [err |-> "",
             email |-> [r.email EXCEPT !.Attachments = MimeMeta(r.atts),
                                       !.Size = DataLen(entity)]]

\* The messages of the model. An entity carries what its header says
\* (media type, disposition with its filename parameter, the name parameter
\* of the content type, transfer encoding), the bytes of its header, and
\* its body on the wire or its parts; text is what the sender encoded.
TextBytes == {97, 61, 51, 68, 32}

Texts == UNION {[1..n -> TextBytes] : n \in 0..MaxText}

Encodings == {"", "base64", "quoted-printable"}

Encode(enc, text) ==
    IF enc = "base64" THEN B64Encode(text)
    ELSE IF enc = "quoted-printable" THEN QPEncode(text)
    ELSE text

Leaf(major, minor, disposition, filename, name, enc, text) ==
    [mediaType |-> [major |-> major, minor |-> minor],
     disposition |-> disposition, filename |-> filename, name |-> name,
     encoding |-> enc,
     head |-> IF enc = "" THEN <<72>> ELSE <<72, 72>>,
     body |-> Encode(enc, text), text |-> text, parts |-> <<>>]

Multipart(minor, parts) ==
    [mediaType |-> [major |-> "multipart", minor |-> minor],
     disposition |-> "", filename |-> "", name |-> "", encoding |-> "",
     head |-> <<72>>, body |-> <<>>, text |-> <<>>, parts |-> parts]

\* Single-part text/plain messages in the three transfer encodings.
SinglePartPlain ==
    {Leaf("text", "plain", "", "", "", enc, t) : enc \in Encodings, t \in Texts}

\* The leaves of the multipart messages: two plain texts and an empty one,
\* an html text, an attachment, an inline image with a filename, an image
\* without a disposition, and an attachment named by its content type only.
PlainA == Leaf("text", "plain", "", "", "", "", <<97>>)
PlainB == Leaf("text", "plain", "", "", "", "", <<98>>)
PlainEmpty == Leaf("text", "plain", "", "", "", "", <<>>)
HtmlH == Leaf("text", "html", "", "", "", "", <<104>>)
AttachedPdf == Leaf("application", "pdf", "attachment", "f.pdf", "", "", <<37>>)
InlinePng == Leaf("image", "png", "inline", "i.png", "", "", <<80>>)
BarePng == Leaf("image", "png", "", "", "", "", <<71>>)
AttachedNamed == Leaf("application", "octet-stream", "attachment", "", "n.bin", "", <<78>>)

Leaves == {PlainA, PlainB, PlainEmpty, HtmlH, AttachedPdf, InlinePng, BarePng,
           AttachedNamed}

\* Multiparts inside a multipart, one of them holding another.
Inner ==
    {Multipart("alternative", <<PlainA, HtmlH>>),
     Multipart("alternative", <<PlainB, HtmlH>>),
     Multipart("mixed", <<AttachedPdf, BarePng>>),
     Multipart("mixed", <<Multipart("alternative", <<PlainA, HtmlH>>), InlinePng>>)}

MultipartMessages ==
    {Multipart("mixed", parts) :
        parts \in UNION {[1..n -> Leaves \cup Inner] : n \in 1..MaxParts}}

MimeMessages == SinglePartPlain \cup MultipartMessages

\* Session.Data calls Parse on the message it was given.
ParseStep ==
    /\ mime.pc = "input"
    /\ mime' = [pc |-> "done", msg |-> mime.msg, out |-> ParseMime(mime.msg)]
    /\ UNCHANGED storeVars
    /\ UNCHANGED hubVars
    /\ UNCHANGED <<conns, wr, get, mgr, main>>

(***************************************************************************)
(* The connection pool. Every statement of the store runs on a connection  *)
(* of s.db; a transaction keeps its connection from Begin to Commit or     *)
(* Rollback, a single Exec for the time of the statement.                  *)
(***************************************************************************)
\* db.SetMaxOpenConns(1)
MaxOpenConns == 1

\* database/sql gives a connection while fewer than MaxOpenConns are in use;
\* otherwise the caller waits until one is given back.
PoolHasConnAlways(holders) == TRUE
PoolHasConn(holders) == Cardinality(holders) < MaxOpenConns

\* SaveEmail, "tx, err := s.db.Begin()".
SaveBegin(s) ==
    /\ sess[s].pc = "save"
    /\ wr[s].pc = "idle"
    /\ PoolHasConn(conns)
    /\ conns' = conns \cup {s}
    /\ wr' = [wr EXCEPT ![s] = [pc |-> "running", op |-> "SaveEmail", arg |-> 0,
                                snap |-> db]]
    /\ UNCHANGED storeVars
    /\ UNCHANGED hubVars
    /\ UNCHANGED <<get, mgr, main, mime>>

\* SaveEmail from its first tx.Exec to tx.Commit or the deferred tx.Rollback,
\* which give the connection back, and the rest of Data.
SaveEnd(s, fail) ==
    /\ wr[s].pc = "running"
    /\ SaveAndNotify(s, fail)
    /\ conns' = conns \ {s}
    /\ wr' = [wr EXCEPT ![s] = NoWrite]
    /\ UNCHANGED <<get, mgr, main, mime>>

\* The deletes a caller other than a session issues: the API handlers
\* DeleteEmail and DeleteAllEmails, the retention sweep the other two.
ExecOps(w) ==
    IF w = "api"
    THEN {[op |-> "DeleteEmail", arg |-> r.id] : r \in db.emails}
             \cup {[op |-> "DeleteAllEmails", arg |-> 0]}
    ELSE {[op |-> "DeleteOldEmails", arg |-> now],
          [op |-> "DeleteExcessEmails", arg |-> MaxKeep]}

\* A caller reaches the s.db.Exec of a delete and asks the pool for a
\* connection.
ExecCall(w, o) ==
    /\ w \notin Sessions
    /\ wr[w].pc = "idle"
    /\ wr' = [wr EXCEPT ![w] = [pc |-> "waiting", op |-> o.op, arg |-> o.arg,
                                snap |-> EmptyDB]]
    /\ UNCHANGED storeVars
    /\ UNCHANGED hubVars
    /\ UNCHANGED <<conns, get, mgr, main, mime>>

\* The pool gives the connection and the statement starts.
ExecBegin(w) ==
    /\ wr[w].pc = "waiting"
    /\ PoolHasConn(conns)
    /\ conns' = conns \cup {w}
    /\ wr' = [wr EXCEPT ![w].pc = "running", ![w].snap = db]
    /\ UNCHANGED storeVars
    /\ UNCHANGED hubVars
    /\ UNCHANGED <<get, mgr, main, mime>>

\* The statement ends and the connection goes back to the pool.
ExecEnd(w, fail) ==
    /\ w \notin Sessions
    /\ wr[w].pc = "running"
    /\ CASE wr[w].op = "DeleteEmail" -> DeleteEmailRows(wr[w].arg, fail)
         [] wr[w].op = "DeleteAllEmails" -> DeleteAllEmailsRows(fail)
         [] wr[w].op = "DeleteOldEmails" -> DeleteOldEmailsRows(wr[w].arg, fail)
         [] OTHER -> DeleteExcessEmailsRows(wr[w].arg, fail)
    /\ conns' = conns \ {w}
    /\ wr' = [wr EXCEPT ![w] = NoWrite]
    /\ UNCHANGED <<now, sess, savedIds, hasFTS5, onNewMail, pending, published>>
    /\ UNCHANGED hubVars
    /\ UNCHANGED <<get, mgr, main, mime>>

\* The caller has asked for a connection and has none yet.
Waiting(w) ==
    IF w \in Sessions THEN sess[w].pc = "save" /\ wr[w].pc = "idle"
    ELSE wr[w].pc = "waiting"

(***************************************************************************)
(* The retention manager. mgr.pc is the position of Start: "new" before    *)
(* it runs, "age" and "count" inside cleanup before its first and its      *)
(* second delete, "select" at the select of the loop, "returned" after     *)
(* the return, when the deferred close(m.done) has run. mgr.tick is a tick *)
(* waiting in ticker.C, whose buffer holds one; mgr.stop is m.stop closed, *)
(* mgr.cancelled is ctx done; mgr.running counts the calls of cleanup that *)
(* have begun and not returned; mgr.config is m.config.                    *)
(***************************************************************************)
\* cleanup, "if m.config.MaxAge > 0" and "if m.config.MaxCount > 0": the
\* setting asks for the delete.
AgeSet(cfg) == cfg.MaxAge > 0

CountSetAlways(cfg) == TRUE
CountSet(cfg) == cfg.MaxCount > 0

\* before := time.Now().Add(-m.config.MaxAge)
SweepBefore(cfg) == now - cfg.MaxAge

\* What cleanup does after DeleteOldEmails returned err: it logs an error
\* and goes on to the count.
AfterOldReturning(err) == IF err # "" THEN "select" ELSE "count"
AfterOld(err) == "count"

\* The case <-ticker.C of the select can be taken although a call of cleanup
\* has not returned, as it could if the loop ran "go m.cleanup()".
TickCaseAnytime(m) == m.tick /\ m.pc \in {"age", "count", "select"}

\* The case <-ticker.C of the select can be taken: Start is at the select and
\* a tick waits in the channel.
TickCase(m) == m.tick /\ m.pc = "select"

\* The frame of a step of the manager that does not touch the store.
MgrOnly ==
    /\ UNCHANGED storeVars
    /\ UNCHANGED hubVars
    /\ UNCHANGED <<conns, wr, get, main, mime>>

\* go retentionMgr.Start(ctx) up to the first statement of the first
\* cleanup; with the policy disabled Start returns at once.
MgrStart ==
    /\ mgr.pc = "new"
    /\ mgr' = IF mgr.config.Enabled
              THEN [mgr EXCEPT !.pc = "age", !.running = @ + 1]
              ELSE [mgr EXCEPT !.pc = "returned"]
    /\ MgrOnly

\* The runtime's timer puts a tick into ticker.C between NewTicker and the
\* deferred ticker.Stop; a tick that finds the buffer full is dropped.
TickerFires ==
    /\ mgr.pc \in {"age", "count", "select"}
    /\ ~mgr.tick
    /\ mgr' = [mgr EXCEPT !.tick = TRUE]
    /\ MgrOnly

\* cleanup, "Delete old emails": m.storage.DeleteOldEmails(before) when the
\* age is set; an error is logged only.
CleanupOld(fail) ==
    /\ mgr.pc = "age"
    /\ IF AgeSet(mgr.config)
       THEN /\ PoolHasConn(conns)
            /\ DeleteOldEmailsRows(SweepBefore(mgr.config), fail)
            /\ mgr' = [mgr EXCEPT !.pc = AfterOld(last'.err)]
       ELSE /\ mgr' = [mgr EXCEPT !.pc = "count"]
            /\ UNCHANGED <<db, last, resp>>
    /\ UNCHANGED <<now, sess, savedIds, hasFTS5, onNewMail, pending, published>>
    /\ UNCHANGED hubVars
    /\ UNCHANGED <<conns, wr, get, main, mime>>

\* cleanup, "Delete excess emails": m.storage.DeleteExcessEmails(
\* m.config.MaxCount) when the count is set, and the return.
CleanupExcess(fail) ==
    /\ mgr.pc = "count"
    /\ IF CountSet(mgr.config)
       THEN /\ PoolHasConn(conns)
            /\ DeleteExcessEmailsRows(mgr.config.MaxCount, fail)
       ELSE UNCHANGED <<db, last, resp>>
    /\ mgr' = [mgr EXCEPT !.pc = "select", !.running = @ - 1]
    /\ UNCHANGED <<now, sess, savedIds, hasFTS5, onNewMail, pending, published>>
    /\ UNCHANGED hubVars
    /\ UNCHANGED <<conns, wr, get, main, mime>>

\* case <-ticker.C: m.cleanup(). When several cases of a select can proceed
\* the runtime picks one of them at random, so this step is enabled whatever
\* the state of m.stop and of ctx.
SelectTick ==
    /\ TickCase(mgr)
    /\ mgr' = [mgr EXCEPT !.tick = FALSE, !.pc = "age", !.running = @ + 1]
    /\ MgrOnly

\* case <-m.stop: return
SelectStop ==
    /\ mgr.pc = "select"
    /\ mgr.stop
    /\ mgr' = [mgr EXCEPT !.pc = "returned", !.tick = FALSE]
    /\ MgrOnly

\* case <-ctx.Done(): return
SelectDone ==
    /\ mgr.pc = "select"
    /\ mgr.cancelled
    /\ mgr' = [mgr EXCEPT !.pc = "returned", !.tick = FALSE]
    /\ MgrOnly

\* Manager.Stop: close(m.stop). Its caller then waits for m.done.
Stop ==
    /\ ~mgr.stop
    /\ mgr' = [mgr EXCEPT !.stop = TRUE]
    /\ MgrOnly

\* cancel() of the context that Start was given.
Cancel ==
    /\ ~mgr.cancelled
    /\ mgr' = [mgr EXCEPT !.cancelled = TRUE]
    /\ MgrOnly

\* The manager's steps.
MgrStep ==
    \/ MgrStart
    \/ \E fail \in BOOLEAN : CleanupOld(fail)
    \/ \E fail \in BOOLEAN : CleanupExcess(fail)
    \/ SelectTick
    \/ SelectStop
    \/ SelectDone

(***************************************************************************)
(* The HTTP handlers.                                                      *)
(***************************************************************************)
\* GetEmail up to its first Scan: ErrNotFound when no row has the id.
GetEmailRow(id) ==
    /\ get.pc = "idle"
    /\ PoolHasConn(conns)
    /\ get' = IF SelectEmail(db, id) = {}
              THEN [NoGet EXCEPT !.pc = "done", !.id = id, !.res = ErrNotFound]
              ELSE [NoGet EXCEPT !.pc = "attachments", !.id = id,
                                 !.row = SelectEmail(db, id)]
    /\ UNCHANGED storeVars
    /\ UNCHANGED hubVars
    /\ UNCHANGED <<conns, wr, mgr, main, mime>>

\* GetEmail from "Get attachments metadata" on: a second statement, on the
\* store as it is by then. overlapped: the message was deleted in between.
GetEmailAttachments ==
    /\ get.pc = "attachments"
    /\ PoolHasConn(conns)
    /\ get' = [get EXCEPT
                  !.pc = "done",
                  !.overlapped = SelectEmail(db, get.id) = {},
                  !.res = ScanEmail(CHOOSE q \in get.row : TRUE,
                                    SelectAttachments(db, get.id))]
    /\ UNCHANGED storeVars
    /\ UNCHANGED hubVars
    /\ UNCHANGED <<conns, wr, mgr, main, mime>>

\* handleGetEmail sends what GetEmail returned.
GetEmailReturn ==
    /\ get.pc = "done"
    /\ get' = NoGet
    /\ UNCHANGED storeVars
    /\ UNCHANGED hubVars
    /\ UNCHANGED <<conns, wr, mgr, main, mime>>

\* handleGetAttachment: GET /api/emails/{id}/attachments/{aid}.
handleGetAttachment(aid) ==
    /\ resp' = IF aid <= 0 THEN [op |-> "attachment", code |-> "INVALID_ID"]
               ELSE IF GetAttachment(db, aid).err = "NotFound"
               THEN [op |-> "attachment", code |-> "NOT_FOUND"]
               ELSE [op |-> "attachment", code |-> "",
                     data |-> GetAttachment(db, aid).Data]
    /\ UNCHANGED <<now, db, sess, savedIds, last, hasFTS5, onNewMail, pending, published>>
    /\ UNCHANGED hubVars
    /\ UNCHANGED procVars

\* The errors a statement of the store can fail with, as the driver
\* reports them.
StorageErrors == {"database is locked", "disk I/O error"}

\* err.Error(): the text of the error, as it is.
ErrorText(err) == err

\* sendError: the body of an error response, APIResponse{Success: false,
\* Error: &APIError{Code: code, Message: message}}.
sendError(code, message) == [success |-> FALSE, code |-> code, message |-> message]

\* handleListEmails: GET /api/emails. fail: the store's statement fails
\* with the error err.
handleListEmails(req, fail) ==
    /\ LET limit == parseIntParam(req.limit, DefaultLimit, MinLimit, MaxLimit)
           offset == parseIntParam(req.offset, 0, 0, MaxInt)
           filter == [From |-> req.from, To |-> req.to, Subject |-> req.subject,
                      Since |-> ParseTime(req.since), Until |-> ParseTime(req.until)]
       IN \E result \in ListEmails(db, filter, limit, offset), err \in StorageErrors :
             resp' = IF fail
                     THEN [op |-> "list", fail |-> TRUE] @@
                          sendError("STORAGE_ERROR", ErrorText(err))
                     ELSE [op |-> "list", code |-> "", fail |-> FALSE,
                           rawLimit |-> req.limit, limit |-> limit, offset |-> offset,
                           filter |-> filter, query |-> <<>>,
                           emails |-> result.Emails, total |-> result.Total]
    /\ UNCHANGED <<now, db, sess, savedIds, last, hasFTS5, onNewMail, pending, published>>
    /\ UNCHANGED hubVars
    /\ UNCHANGED procVars

\* handleSearchEmails: GET /api/emails/search.
handleSearchEmails(req, fail) ==
    /\ IF EmptyQuery(req.q)
       THEN resp' = [op |-> "search", code |-> "INVALID_REQUEST", fail |-> FALSE,
                     query |-> req.q]
       ELSE LET limit == parseIntParam(req.limit, DefaultLimit, MinLimit, MaxLimit)
                offset == parseIntParam(req.offset, 0, 0, MaxInt)
            IN \E result \in SearchEmails(db, req.q, limit, offset),
                  err \in StorageErrors :
                  resp' = IF fail \/ result.err # ""
                          THEN [op |-> "search", fail |-> fail, query |-> req.q] @@
                               sendError("STORAGE_ERROR",
                                         ErrorText(IF fail THEN err ELSE "fts5: syntax error"))
                          ELSE [op |-> "search", code |-> "", fail |-> FALSE,
                                rawLimit |-> req.limit, limit |-> limit,
                                offset |-> offset, filter |-> NoFilter,
                                query |-> req.q,
                                emails |-> result.Emails, total |-> result.Total]
    /\ UNCHANGED <<now, db, sess, savedIds, last, hasFTS5, onNewMail, pending, published>>
    /\ UNCHANGED hubVars
    /\ UNCHANGED procVars

(***************************************************************************)
(* The WebSocket hub.                                                      *)
(***************************************************************************)
Range(q) == {q[i] : i \in 1..Len(q)}

\* A buffered channel: a send finds room while fewer than cap values wait.
HasRoomNever(q, cap) == FALSE
HasRoom(q, cap) == Len(q) < cap

\* A channel hands its values over in the order they were sent.
ChanSendFront(q, m) == <<m>> \o q
ChanSend(q, m) == Append(q, m)

\* Run, case message := <-h.broadcast: the clients whose send takes the
\* message, "case client.send <- message"; for the others the default runs.
TakersStalled(cs, sendf) ==
    IF \E c \in cs : ~HasRoom(sendf[c], SendCap) THEN {}
    ELSE cs
Takers(cs, sendf) == {c \in cs : HasRoom(sendf[c], SendCap)}

\* server.Start: go s.wsHub.Run()
StartHub ==
    /\ ~hubRunning
    /\ hubRunning' = TRUE
    /\ UNCHANGED <<shutdown, clients, broadcast, send, closed, cstate, delivered,
                   received, nextEv, accepted, dropped, handled, closeCount>>
    /\ UNCHANGED storeVars
    /\ UNCHANGED procVars

\* ServeWS: the client is made, "client.hub.register <- client" meets Run's
\* "case client := <-h.register", and the two pumps are started.
Register(c) ==
    /\ hubRunning
    /\ cstate[c].phase = "new"
    /\ clients' = clients \cup {c}
    /\ cstate' = [cstate EXCEPT ![c] = [phase |-> "open", wp |-> TRUE, conn |-> TRUE]]
    /\ UNCHANGED <<hubRunning, shutdown, broadcast, send, closed, delivered,
                   received, nextEv, accepted, dropped, handled, closeCount>>
    /\ UNCHANGED storeVars
    /\ UNCHANGED procVars

\* Run, case client := <-h.unregister: "if _, ok := h.clients[client]; ok".
IsClientAlways(cs, c) == TRUE
IsClient(cs, c) == c \in cs

\* readPump: a read fails (the peer left, or the connection was closed), and
\* the deferred "c.hub.unregister <- c" meets Run's "case client := <-h.unregister".
Unregister(c) ==
    /\ hubRunning
    /\ cstate[c].phase = "open"
    /\ cstate' = [cstate EXCEPT ![c].phase = "left", ![c].conn = FALSE]
    /\ clients' = clients \ {c}
    /\ closed' = [closed EXCEPT ![c] = @ \/ IsClient(clients, c)]
    /\ closeCount' = [closeCount EXCEPT ![c] = IF IsClient(clients, c) THEN @ + 1 ELSE @]
    /\ UNCHANGED <<hubRunning, shutdown, broadcast, send, delivered, received,
                   nextEv, accepted, dropped, handled>>
    /\ UNCHANGED storeVars
    /\ UNCHANGED procVars

\* Broadcast: "select { case h.broadcast <- message: default: }".
BroadcastBlocking ==
    /\ nextEv < MaxEvents
    /\ HasRoom(broadcast, BroadcastCap)
    /\ nextEv' = nextEv + 1
    /\ broadcast' = ChanSend(broadcast, nextEv + 1)
    /\ accepted' = Append(accepted, nextEv + 1)
    /\ UNCHANGED <<hubRunning, shutdown, clients, send, closed, cstate, delivered,
                   received, dropped, handled, closeCount>>
    /\ UNCHANGED storeVars
    /\ UNCHANGED procVars
Broadcast ==
    /\ nextEv < MaxEvents
    /\ nextEv' = nextEv + 1
    /\ IF HasRoom(broadcast, BroadcastCap)
       THEN /\ broadcast' = ChanSend(broadcast, nextEv + 1)
            /\ accepted' = Append(accepted, nextEv + 1)
            /\ UNCHANGED dropped
       ELSE /\ dropped' = dropped \cup {[ev |-> nextEv + 1, subscribers |-> clients,
                                         waiting |-> Len(broadcast)]}
            /\ UNCHANGED <<broadcast, accepted>>
    /\ UNCHANGED <<hubRunning, shutdown, clients, send, closed, cstate, delivered,
                   received, handled, closeCount>>
    /\ UNCHANGED storeVars
    /\ UNCHANGED procVars

\* The goroutine of "go s.server.onNewMail(email)": the callback set by main
\* calls Server.BroadcastNewEmail, which hands an "email.new" message to
\* WebSocketHub.Broadcast.
BroadcastNewEmail(e) ==
    /\ e \in pending
    /\ pending' = pending \ {e}
    /\ published' = Append(published,
                           [Type |-> "email.new", ev |-> nextEv + 1, id |-> e.ID,
                            from |-> e.From, to |-> e.To, subject |-> e.Subject,
                            receivedAt |-> e.ReceivedAt])
    /\ nextEv' = nextEv + 1
    /\ IF HasRoom(broadcast, BroadcastCap)
       THEN /\ broadcast' = ChanSend(broadcast, nextEv + 1)
            /\ accepted' = Append(accepted, nextEv + 1)
            /\ UNCHANGED dropped
       ELSE /\ dropped' = dropped \cup {[ev |-> nextEv + 1, subscribers |-> clients,
                                         waiting |-> Len(broadcast)]}
            /\ UNCHANGED <<broadcast, accepted>>
    /\ UNCHANGED <<hubRunning, shutdown, clients, send, closed, cstate, delivered,
                   received, handled, closeCount>>
    /\ UNCHANGED <<now, db, sess, savedIds, last, hasFTS5, onNewMail, resp>>
    /\ UNCHANGED procVars

\* WebSocketHub.Broadcast of a message a handler has built.
Publish(msg) ==
    /\ published' = Append(published, msg @@ [ev |-> nextEv + 1])
    /\ nextEv' = nextEv + 1
    /\ IF HasRoom(broadcast, BroadcastCap)
       THEN /\ broadcast' = ChanSend(broadcast, nextEv + 1)
            /\ accepted' = Append(accepted, nextEv + 1)
            /\ UNCHANGED dropped
       ELSE /\ dropped' = dropped \cup {[ev |-> nextEv + 1, subscribers |-> clients,
                                         waiting |-> Len(broadcast)]}
            /\ UNCHANGED <<broadcast, accepted>>
    /\ UNCHANGED <<hubRunning, shutdown, clients, send, closed, cstate, delivered,
                   received, handled, closeCount>>

\* The handlers "Notify WebSocket clients" after the early returns for an
\* error of the store.
DeleteNotifiedAlways(err) == TRUE
DeleteNotified(err) == err = ""

\* handleDeleteEmail: DELETE /api/emails/{id}.
handleDeleteEmail(id, fail) ==
    /\ nextEv < MaxEvents
    /\ IF id = 0
       THEN /\ last' = [op |-> "handleDeleteEmail", fail |-> "none", arg |-> id,
                        email |-> NoEmail, ret |-> 0, err |-> "INVALID_ID", pre |-> db]
            /\ UNCHANGED <<db, resp, published>>
            /\ UNCHANGED hubVars
       ELSE /\ DeleteEmailRows(id, fail)
            /\ IF DeleteNotified(last'.err)
               THEN Publish([Type |-> "email.deleted", id |-> id])
               ELSE UNCHANGED published /\ UNCHANGED hubVars
    /\ UNCHANGED <<now, sess, savedIds, hasFTS5, onNewMail, pending>>
    /\ UNCHANGED procVars

\* handleDeleteAllEmails: DELETE /api/emails.
handleDeleteAllEmails(fail) ==
    /\ nextEv < MaxEvents
    /\ DeleteAllEmailsRows(fail)
    /\ IF DeleteNotified(last'.err)
       THEN Publish([Type |-> "emails.cleared"])
       ELSE UNCHANGED published /\ UNCHANGED hubVars
    /\ UNCHANGED <<now, sess, savedIds, hasFTS5, onNewMail, pending>>
    /\ UNCHANGED procVars

\* Run, case message := <-h.broadcast, with its loop over h.clients.
RunBroadcast ==
    /\ hubRunning
    /\ broadcast # <<>>
    /\ LET m == Head(broadcast)
           takers == Takers(clients, send)
           full == clients \ takers
       IN /\ broadcast' = Tail(broadcast)
          /\ send' = [c \in Clients |->
                         IF c \in takers THEN ChanSend(send[c], m) ELSE send[c]]
          /\ received' = [c \in Clients |->
                             IF c \in takers THEN Append(received[c], m)
                             ELSE received[c]]
          /\ closed' = [c \in Clients |-> closed[c] \/ c \in full]
          /\ closeCount' = [c \in Clients |->
                               IF c \in full THEN closeCount[c] + 1 ELSE closeCount[c]]
          /\ clients' = clients \ full
          /\ handled' = Append(handled,
                 [ev |-> m,
                  roomy |-> {c \in clients : Len(send[c]) < SendCap},
                  full |-> {c \in clients : Len(send[c]) >= SendCap}])
    /\ UNCHANGED <<hubRunning, shutdown, cstate, delivered, nextEv, accepted, dropped>>
    /\ UNCHANGED storeVars
    /\ UNCHANGED procVars

\* writePump, case message, ok := <-c.send: a message is written to the
\* connection; a failed write, or the closed and drained channel, ends the pump,
\* and the pump's deferred c.conn.Close() runs. A write to a closed connection
\* fails.
WritePump(c, ok) ==
    /\ cstate[c].wp
    /\ ok => cstate[c].conn
    /\ \/ /\ send[c] # <<>>
          /\ send' = [send EXCEPT ![c] = Tail(@)]
          /\ delivered' = [delivered EXCEPT ![c] = IF ok THEN Append(@, Head(send[c]))
                                                    ELSE @]
          /\ cstate' = [cstate EXCEPT ![c].wp = ok, ![c].conn = ok]
       \/ /\ send[c] = <<>>
          /\ closed[c]
          /\ ~ok
          /\ cstate' = [cstate EXCEPT ![c].wp = FALSE, ![c].conn = FALSE]
          /\ UNCHANGED <<send, delivered>>
    /\ UNCHANGED <<hubRunning, shutdown, clients, broadcast, closed, received,
                   nextEv, accepted, dropped, handled, closeCount>>
    /\ UNCHANGED storeVars
    /\ UNCHANGED procVars

\* writePump, case <-ticker.C: the ping cannot be written and the pump returns.
PingFails(c) ==
    /\ cstate[c].wp
    /\ cstate' = [cstate EXCEPT ![c].wp = FALSE, ![c].conn = FALSE]
    /\ UNCHANGED <<hubRunning, shutdown, clients, broadcast, send, closed, delivered,
                   received, nextEv, accepted, dropped, handled, closeCount>>
    /\ UNCHANGED storeVars
    /\ UNCHANGED procVars

\* Shutdown: every client's connection is closed and the client is deleted
\* from h.clients; client.send is left open.
Shutdown ==
    /\ ~shutdown
    /\ shutdown' = TRUE
    /\ clients' = {}
    /\ cstate' = [c \in Clients |->
                     IF c \in clients THEN [cstate[c] EXCEPT !.conn = FALSE]
                     ELSE cstate[c]]
    /\ UNCHANGED <<hubRunning, broadcast, send, closed, delivered, received,
                   nextEv, accepted, dropped, handled, closeCount>>
    /\ UNCHANGED storeVars
    /\ UNCHANGED procVars

(***************************************************************************)
(* The shutdown of the process. main.pc is the position of main: "serving" *)
(* while it waits for a signal in waitForShutdown, "smtpShutdown" and      *)
(* "httpShutdown" before the two calls of Shutdown, "httpWait" inside      *)
(* http.Server.Shutdown, "returning" when waitForShutdown has returned,    *)
(* "closing" after the deferred cancel, "closed" after the deferred        *)
(* store.Close, with which main returns and the process ends, and "exited" *)
(* after os.Exit.                                                          *)
(***************************************************************************)
\* The process runs: its goroutines take steps.
Alive == main.pc \notin {"closed", "exited"}

\* The SMTP server has a session: Shutdown has not yet returned, or it gave
\* up waiting for the sessions when its context ran out.
Serving == main.pc \in {"serving", "smtpShutdown"} \/ main.smtpTimedOut

\* The frame of a step of main that touches nothing else.
MainOnly ==
    /\ UNCHANGED storeVars
    /\ UNCHANGED hubVars
    /\ UNCHANGED <<conns, wr, get, mgr, mime>>

\* <-sigChan
Signal ==
    /\ main.pc = "serving"
    /\ main' = [main EXCEPT !.pc = "smtpShutdown"]
    /\ MainOnly

\* smtpServer.Shutdown(ctx): it returns when no session is left, or with
\* the context's error after 30 seconds while a session is still at work;
\* the error is logged and main goes on.
SmtpShutdown(timedOut) ==
    /\ main.pc = "smtpShutdown"
    /\ timedOut = (\E s \in Sessions : sess[s].pc # "idle")
    /\ main' = [main EXCEPT !.pc = "httpShutdown", !.smtpTimedOut = timedOut]
    /\ MainOnly

\* Server.Shutdown after s.wsHub.Shutdown(): s.server.Shutdown(ctx) begins,
\* and ListenAndServe returns ErrServerClosed in the goroutine of Start.
HttpShutdownBegin ==
    /\ main.pc = "httpShutdown"
    /\ shutdown
    /\ main' = [main EXCEPT !.pc = "httpWait"]
    /\ MainOnly

\* s.server.Shutdown(ctx) returns, and waitForShutdown after it.
HttpShutdownEnd ==
    /\ main.pc = "httpWait"
    /\ main' = [main EXCEPT !.pc = "returning"]
    /\ MainOnly

\* The goroutine "if err := httpServer.Start(); err != nil { logger.Fatal()"
\* of main: Start has returned ErrServerClosed, and Fatal ends the process
\* with os.Exit(1), which runs no deferred call.
StartFailed ==
    /\ main.pc \in {"httpWait", "returning", "closing"}
    /\ main' = [main EXCEPT !.pc = "exited"]
    /\ MainOnly

\* defer cancel(): the context of the retention manager is done. main does
\* not call Manager.Stop and does not wait for Start to return.
DeferredCancel ==
    /\ main.pc = "returning"
    /\ main' = [main EXCEPT !.pc = "closing"]
    /\ mgr' = [mgr EXCEPT !.cancelled = TRUE]
    /\ UNCHANGED storeVars
    /\ UNCHANGED hubVars
    /\ UNCHANGED <<conns, wr, get, mime>>

\* defer store.Close()
Close ==
    /\ main.pc = "closing"
    /\ main' = [main EXCEPT !.pc = "closed"]
    /\ MainOnly

NextHub ==
    \/ StartHub
    \/ \E c \in Clients : Register(c)
    \/ \E c \in Clients : Unregister(c)
    \/ Broadcast
    \/ RunBroadcast
    \/ \E c \in Clients, ok \in BOOLEAN : WritePump(c, ok)
    \/ \E c \in Clients : PingFails(c)
    \/ Shutdown

InitHub ==
    /\ hubRunning = FALSE
    /\ shutdown = FALSE
    /\ clients = {}
    /\ broadcast = <<>>
    /\ send = [c \in Clients |-> <<>>]
    /\ closed = [c \in Clients |-> FALSE]
    /\ cstate = [c \in Clients |-> [phase |-> "new", wp |-> FALSE, conn |-> FALSE]]
    /\ delivered = [c \in Clients |-> <<>>]
    /\ received = [c \in Clients |-> <<>>]
    /\ nextEv = 0
    /\ accepted = <<>>
    /\ dropped = {}
    /\ handled = <<>>
    /\ closeCount = [c \in Clients |-> 0]

Init == InitStore /\ InitHub

Next ==
    \/ Tick
    \/ \E s \in Sessions, raw \in WellFormed : DataParse(s, raw)
    \/ \E s \in Sessions, fail \in FailPoints : DataSave(s, fail)
    \/ \E id \in 1..MaxId, fail \in BOOLEAN : DeleteEmail(id, fail)
    \/ \E fail \in BOOLEAN : DeleteAllEmails(fail)
    \/ \E before \in 0..now, fail \in BOOLEAN : DeleteOldEmails(before, fail)
    \/ \E maxCount \in 0..MaxKeep, fail \in BOOLEAN : DeleteExcessEmails(maxCount, fail)

Spec == Init /\ [][Next]_vars

HubSpec == Init /\ [][NextHub]_vars

\* The ingestion path as main wires it: SetNewMailCallback was called before
\* the SMTP server accepts its first session.
InitIngest ==
    /\ InitRun
    /\ hasFTS5 = FALSE
    /\ onNewMail = TRUE
    /\ InitHub

NextIngest ==
    \/ Tick
    \/ \E s \in Sessions, raw \in RawMessages : DataParse(s, raw)
    \/ \E s \in Sessions, fail \in {"none", "commit"} : DataSave(s, fail)
    \/ \E e \in pending : BroadcastNewEmail(e)

IngestSpec == InitIngest /\ [][NextIngest]_vars

\* The envelope commands of a session: NewSession gives it an empty envelope,
\* and Mail, Rcpt and Reset come in any order between its messages.
Senders == {<<"g">>}
Recipients == {<<"r">>, <<"t">>}

InitEnvelope ==
    /\ InitRunWith(<<>>, <<>>)
    /\ hasFTS5 = FALSE
    /\ onNewMail = FALSE
    /\ InitHub

NextEnvelope ==
    \/ \E from \in Senders : Mail("s1", from)
    \/ \E to \in Recipients : Rcpt("s1", to)
    \/ Reset("s1")
    \/ \E raw \in {m \in WellFormed : m.BodyPlain # <<"x", "-", "y">>} :
           DataParse("s1", raw)
    \/ DataSave("s1", "none")

EnvelopeSpec == InitEnvelope /\ [][NextEnvelope]_vars

\* The writers of the store side by side: two sessions, the API and the
\* retention sweep, each taking the pool's connection for its write.
NextWriters ==
    \/ \E s \in Sessions, raw \in {m \in WellFormed : m.MessageID # ""} :
           DataParse(s, raw)
    \/ \E s \in Sessions : SaveBegin(s)
    \/ \E s \in Sessions : SaveEnd(s, "none")
    \/ \E w \in Callers \ Sessions : \E o \in ExecOps(w) : ExecCall(w, o)
    \/ \E w \in Callers \ Sessions : ExecBegin(w)
    \/ \E w \in Callers \ Sessions : ExecEnd(w, FALSE)

WriterSpec == Init /\ [][NextWriters]_vars

\* A statement that runs ends, and the pool gives a connection that is free
\* again and again to each caller that waits for one.
WriterFairSpec ==
    /\ WriterSpec
    /\ \A s \in Sessions : WF_vars(SaveEnd(s, "none"))
    /\ \A w \in Callers \ Sessions : WF_vars(ExecEnd(w, FALSE))
    /\ \A s \in Sessions : SF_vars(SaveBegin(s))
    /\ \A w \in Callers \ Sessions : SF_vars(ExecBegin(w))

\* A reader of one message beside the store's writers: GetEmail's two
\* statements with a save or a delete between them.
NextRead ==
    \/ \E raw \in WellFormed : DataParse("s1", raw)
    \/ DataSave("s1", "none")
    \/ \E id \in 1..MaxId : DeleteEmail(id, FALSE)
    \/ DeleteAllEmails(FALSE)
    \/ \E id \in 1..MaxId : GetEmailRow(id)
    \/ GetEmailAttachments
    \/ GetEmailReturn

ReadSpec == Init /\ [][NextRead]_vars

\* The delete requests of the API on a store that a session fills.
NextDeleteApi ==
    \/ \E raw \in {m \in WellFormed : m.MessageID # ""} : DataParse("s1", raw)
    \/ DataSave("s1", "none")
    \/ \E id \in 0..MaxId, fail \in BOOLEAN : handleDeleteEmail(id, fail)
    \/ \E fail \in BOOLEAN : handleDeleteAllEmails(fail)

DeleteApiSpec == Init /\ [][NextDeleteApi]_vars

\* The events of the store on their way to a subscriber: a session stores
\* messages and its callback goroutines publish their arrival, the delete
\* requests of the API publish the removals, and Run places the events on
\* the send channel of a client that registered.
NextNotify ==
    \/ StartHub
    \/ Register("c1")
    \/ \E raw \in {m \in WellFormed : m.MessageID = "b"} : DataParse("s1", raw)
    \/ DataSave("s1", "none")
    \/ \E e \in pending : BroadcastNewEmail(e)
    \/ \E id \in 1..MaxId : handleDeleteEmail(id, FALSE)
    \/ handleDeleteAllEmails(FALSE)
    \/ RunBroadcast

NotifySpec == InitIngest /\ [][NextNotify]_vars

\* The configurations of the retention policy: disabled or enabled, the
\* age and the count negative, zero or positive.
RetentionConfigs ==
    [Enabled : BOOLEAN, MaxAge : {-1, 0, 1}, MaxCount : {-1, 0, 1, MaxKeep}]

\* The sweeps of a manager under any configuration, beside a session that
\* fills the store while the clock runs.
InitSweep ==
    /\ InitData(EnvFrom, EnvTo)
    /\ \E cfg \in RetentionConfigs : InitCallsWith(cfg)
    /\ mime = NoMime
    /\ hasFTS5 = FALSE
    /\ onNewMail = FALSE
    /\ InitHub

NextSweep ==
    \/ TickTo(MaxSweepTime)
    \/ \E raw \in {m \in WellFormed : m.MessageID # ""} : DataParse("s1", raw)
    \/ DataSave("s1", "none")
    \/ MgrStart
    \/ TickerFires
    \/ \E fail \in BOOLEAN : CleanupOld(fail)
    \/ \E fail \in BOOLEAN : CleanupExcess(fail)
    \/ SelectTick

SweepSpec == InitSweep /\ [][NextSweep]_vars

\* The manager beside a session that fills the store while the clock runs.
NextRetention ==
    \/ Tick
    \/ \E raw \in WellFormed : DataParse("s1", raw)
    \/ DataSave("s1", "none")
    \/ MgrStart
    \/ TickerFires
    \/ \E fail \in BOOLEAN : CleanupOld(fail)
    \/ \E fail \in BOOLEAN : CleanupExcess(fail)
    \/ SelectTick
    \/ SelectStop
    \/ SelectDone
    \/ Stop
    \/ Cancel

RetentionSpec == Init /\ [][NextRetention]_vars

\* A statement of the store ends, and the scheduler runs Start; a case of the
\* select that stays ready is taken in the end, the runtime's choice among
\* the ready cases being random.
RetentionFairSpec ==
    /\ RetentionSpec
    /\ WF_vars(MgrStep)
    /\ SF_vars(SelectStop)
    /\ SF_vars(SelectDone)

\* The process from its start to its end: a session that stores messages
\* and announces them, the retention manager, the hub, and main on its way
\* through waitForShutdown and its deferred calls.
NextShutdown ==
    \/ Alive /\ Serving /\ \E raw \in {m \in WellFormed : m.MessageID # ""} :
                               DataParse("s1", raw)
    \/ Alive /\ DataSave("s1", "none")
    \/ Alive /\ \E e \in pending : BroadcastNewEmail(e)
    \/ Alive /\ StartHub
    \/ Alive /\ RunBroadcast
    \/ Alive /\ MgrStart
    \/ Alive /\ TickerFires
    \/ Alive /\ CleanupOld(FALSE)
    \/ Alive /\ CleanupExcess(FALSE)
    \/ Alive /\ SelectTick
    \/ Alive /\ SelectDone
    \/ Signal
    \/ \E timedOut \in BOOLEAN : SmtpShutdown(timedOut)
    \/ main.pc = "httpShutdown" /\ Shutdown
    \/ HttpShutdownBegin
    \/ HttpShutdownEnd
    \/ StartFailed
    \/ DeferredCancel
    \/ Close

ShutdownSpec == InitIngest /\ [][NextShutdown]_vars

\* The parser alone: Parse is called once on a message of the model.
InitParse ==
    /\ InitData(EnvFrom, EnvTo)
    /\ InitCalls
    /\ hasFTS5 = FALSE
    /\ onNewMail = FALSE
    /\ InitHub
    /\ mime \in {[pc |-> "input", msg |-> m] : m \in MimeMessages}

NextParse == ParseStep

ParseSpec == InitParse /\ [][NextParse]_vars

\* The requests of the model. A query parameter is missing, or a text that is
\* no number, or a number.
MaxOffset == 2

Missing == [kind |-> "missing"]
NotANumber == [kind |-> "text"]
Number(n) == [kind |-> "int", n |-> n]

LimitParams == {Missing, NotANumber} \cup {Number(n) : n \in {-1, 0, 1, 2, MaxLimit, MaxLimit + 1}}
OffsetParams == {Missing} \cup {Number(n) : n \in -1..MaxOffset}

\* List requests that vary the filter, and list requests that vary limit and
\* offset.
ListRequests ==
    {[limit |-> Number(2), offset |-> Missing, from |-> f, to |-> t,
      subject |-> sb, since |-> si, until |-> u] :
        f \in {<<>>, <<"f">>}, t \in {<<>>, <<"q">>},
        sb \in {<<>>, <<"O">>, <<"_">>},
        si \in {Missing, Number(MaxTime)}, u \in {Missing, Number(0)}}
    \cup
    {[limit |-> l, offset |-> o, from |-> <<>>, to |-> <<>>, subject |-> <<>>,
      since |-> NotANumber, until |-> Missing] :
        l \in LimitParams, o \in OffsetParams}

\* Search requests that vary limit and offset, with and without a query, and
\* search requests that vary the query.
SearchPageRequests ==
    {[q |-> q, limit |-> l, offset |-> o] :
        q \in {<<>>, <<"O">>}, l \in LimitParams, o \in {Missing, Number(1)}}

SearchRequests ==
    {[q |-> q, limit |-> Missing, offset |-> Missing] :
        q \in {<<>>, <<"c", "a", "t">>, <<"N", "O", "T">>, <<"d", "o", "g">>,
               <<"x", "-", "y">>}}

\* Paging and filtering: the store without FTS5, one session that feeds it,
\* and list and search requests. A request leaves the store as it is and its
\* response depends on the store alone, so resp keeps one response between two
\* changes of the store.
NextPage ==
    \/ Tick
    \/ \E raw \in WellFormed : DataParse("s1", raw)
    \/ DataSave("s1", "none")
    \/ resp = NoResp /\ \E req \in ListRequests, fail \in BOOLEAN :
                            handleListEmails(req, fail)
    \/ resp = NoResp /\ \E req \in SearchPageRequests, fail \in BOOLEAN :
                            handleSearchEmails(req, fail)

PageSpec == Init /\ [][NextPage]_vars

\* Searching: the store in either search mode, one session that feeds it, the
\* deletes of the API and of the retention manager, and search requests.
InitSearch ==
    /\ InitRun
    /\ hasFTS5 \in BOOLEAN
    /\ onNewMail = FALSE
    /\ InitHub

NextSearch ==
    \/ Tick
    \/ \E raw \in WellFormed : DataParse("s1", raw)
    \/ DataSave("s1", "none")
    \/ \E id \in 1..MaxId : DeleteEmail(id, FALSE)
    \/ DeleteAllEmails(FALSE)
    \/ \E before \in 0..now : DeleteOldEmails(before, FALSE)
    \/ \E maxCount \in 0..MaxKeep : DeleteExcessEmails(maxCount, FALSE)
    \/ resp = NoResp /\ \E req \in SearchRequests, fail \in BOOLEAN :
                            handleSearchEmails(req, fail)

SearchSpec == InitSearch /\ [][NextSearch]_vars

\* Every operation of the store and of the API that reads it, on a store that
\* a session fills: between its saves and deletes, a list, search or
\* attachment request or a GetEmail call. The clock stands still, so the
\* sweep by age would find nothing and the sweep by count stands for both.
StoredListRequests ==
    {[limit |-> Missing, offset |-> Missing, from |-> <<>>, to |-> <<>>,
      subject |-> <<>>, since |-> Missing, until |-> Missing],
     [limit |-> Number(1), offset |-> Number(1), from |-> <<"f">>, to |-> <<>>,
      subject |-> <<>>, since |-> Missing, until |-> Missing]}

StoredSearchRequests ==
    {[q |-> <<"c", "a", "t">>, limit |-> Missing, offset |-> Missing]}

NextStored ==
    \/ \E raw \in {m \in WellFormed : m.MessageID # ""} : DataParse("s1", raw)
    \/ \E fail \in {"none", "commit"} : DataSave("s1", fail)
    \/ \E id \in 1..MaxId : DeleteEmail(id, FALSE)
    \/ DeleteAllEmails(FALSE)
    \/ \E maxCount \in 0..MaxKeep : DeleteExcessEmails(maxCount, FALSE)
    \/ resp = NoResp /\ \E id \in 1..MaxId : GetEmailRow(id)
    \/ GetEmailAttachments
    \/ GetEmailReturn
    \/ resp = NoResp /\ \E req \in StoredListRequests : handleListEmails(req, FALSE)
    \/ resp = NoResp /\ \E req \in StoredSearchRequests : handleSearchEmails(req, FALSE)
    \/ resp = NoResp /\ \E aid \in 0..1 : handleGetAttachment(aid)

StoredSpec == Init /\ [][NextStored]_vars

\* A goroutine that was started is scheduled.
IngestFairSpec ==
    /\ IngestSpec
    /\ WF_vars(\E e \in pending : BroadcastNewEmail(e))

\* The goroutines of Run and of the pumps are scheduled; Run never returns.
HubFairSpec ==
    /\ HubSpec
    /\ WF_vars(StartHub)
    /\ WF_vars(RunBroadcast)

(***************************************************************************)
(* Properties of the store.                                                *)
(***************************************************************************)
\* C1: after SaveEmail returned an id for a message that carries n
\* attachments, GetEmail(id) lists exactly those n attachments and
\* GetAttachment returns each of them.
C1_SavedAttachmentsVisible ==
    (last.op = "SaveEmail" /\ last.err = "") =>
        LET g == GetEmail(db, last.ret)
        IN /\ g.err = ""
           /\ Len(g.email.Attachments) = Len(last.email.Attachments)
           /\ \A i \in 1..Len(g.email.Attachments) :
                 /\ g.email.Attachments[i].Filename = last.email.Attachments[i].Filename
                 /\ GetAttachment(db, g.email.Attachments[i].ID).err = ""

C3_IdsStrictlyIncreasing ==
    \A i, j \in 1..Len(savedIds) : i < j => savedIds[i] < savedIds[j]

\* A save succeeded on a store from which every earlier message had been deleted.
C3_Witness ==
    /\ last.op = "SaveEmail"
    /\ last.err = ""
    /\ Len(savedIds) >= 2
    /\ last.pre.emails = {}

\* The canonical order: receivedAt descending, ties by id descending.
CanonicalBefore(a, b) ==
    \/ a.received_at > b.received_at
    \/ a.received_at = b.received_at /\ a.id > b.id

FirstCanonical(E, m) ==
    {e \in E : Cardinality({f \in E : CanonicalBefore(f, e)}) < m}

\* C9: DeleteExcessEmails(m) on n messages removes max(0, n - m) of them,
\* returns that number, and leaves the first m in the canonical order.
C9_ExcessKeepsMostRecent ==
    (last.op = "DeleteExcessEmails" /\ last.err = "") =>
        LET n == Cardinality(last.pre.emails)
        IN /\ last.ret = Max(0, n - last.arg)
           /\ Cardinality(db.emails) = n - last.ret
           /\ db.emails = FirstCanonical(last.pre.emails, last.arg)

\* C10: DeleteOldEmails(cutoff) removes the messages received strictly before
\* cutoff, keeps the others, and returns the number removed.
C10_DeleteOldRemovesStrictlyOlder ==
    (last.op = "DeleteOldEmails" /\ last.err = "") =>
        /\ db.emails = {e \in last.pre.emails : e.received_at >= last.arg}
        /\ last.ret = Cardinality({e \in last.pre.emails : e.received_at < last.arg})

\* One message was removed and one received exactly at the cutoff was kept.
C10_Witness ==
    /\ last.op = "DeleteOldEmails"
    /\ last.err = ""
    /\ last.ret >= 1
    /\ \E e \in db.emails : e.received_at = last.arg

(***************************************************************************)
(* Properties of the hub.                                                  *)
(***************************************************************************)
HandledEvents == {handled[i].ev : i \in 1..Len(handled)}

\* Position of event e in sequence q (0 when absent).
Pos(q, e) == IF e \in Range(q) THEN CHOOSE i \in 1..Len(q) : q[i] = e ELSE 0

\* Whatever Run took from the hub channel went to every client that was in the
\* set with room in its queue at that moment.
FannedOut ==
    \A i \in 1..Len(handled) :
        \A c \in handled[i].roomy : handled[i].ev \in Range(received[c])

\* C5: a client whose send queue a broadcast finds full is closed and removed
\* from the set, and that event and every later one are still enqueued to
\* each other client whose queue has room.
C5_OverflowDisconnectsOnlyTheSlow ==
    /\ \A i \in 1..Len(handled) :
          \A c \in handled[i].full :
              /\ closed[c]
              /\ c \notin clients
              /\ handled[i].ev \notin Range(received[c])
    /\ FannedOut

\* One client overflowed while another took the event, and took a later one.
C5_Witness ==
    \E i, j \in 1..Len(handled) :
        /\ i < j
        /\ handled[i].full # {}
        /\ \E c \in handled[i].roomy :
              /\ c \in handled[j].roomy
              /\ handled[j].ev \in Range(received[c])

\* C6: a call of Broadcast returns at once in every state of the hub.
C6_BroadcastNeverBlocks ==
    nextEv < MaxEvents => ENABLED Broadcast

\* Broadcast returned although the hub channel was full and Run was not running.
C6_Witness ==
    /\ ~hubRunning
    /\ Len(broadcast) = BroadcastCap
    /\ dropped # {}

C8_FifoPerSubscriber ==
    \A c \in Clients :
        /\ \A i, j \in 1..Len(received[c]) :
              i < j => /\ Pos(accepted, received[c][i]) > 0
                       /\ Pos(accepted, received[c][i]) < Pos(accepted, received[c][j])
        /\ \A i \in 1..Len(delivered[c]) : delivered[c][i] = received[c][i]
        /\ \A i \in 1..Len(send[c]) :
              send[c][i] = received[c][Len(received[c]) - Len(send[c]) + i]

\* A client was written two events while a third waits in its queue.
C8_Witness ==
    \E c \in Clients : Len(delivered[c]) >= 2 /\ send[c] # <<>>

(***************************************************************************)
(* Properties of the ingestion path.                                       *)
(***************************************************************************)
\* C11: every message that Data decoded and SaveEmail stored has exactly one
\* arrival event, which carries the stored id, sender, recipients, subject and
\* receivedAt; the event is handed to the hub only after SaveEmail returned
\* the id, and the goroutine that holds it does eventually hand it over.
C11_OneArrivalEventPerStoredMessage ==
    /\ [](/\ \A i \in 1..Len(published) :
                /\ published[i].id \in Range(savedIds)
                /\ \E r \in db.emails :
                      /\ r.id = published[i].id
                      /\ r.from_address = published[i].from
                      /\ JsonUnmarshal(r.to_addresses) = published[i].to
                      /\ r.subject = published[i].subject
                      /\ r.received_at = published[i].receivedAt
          /\ \A id \in Range(savedIds) :
                Cardinality({i \in 1..Len(published) : published[i].id = id})
                    + Cardinality({e \in pending : e.ID = id}) = 1)
    /\ (pending # {}) ~> (pending = {})

\* Two messages were stored and both events are out, the later id first.
C11_Witness ==
    /\ Len(published) >= 2
    /\ pending = {}
    /\ published[1].id > published[2].id

\* A step in which Data returns an error on session s: Parse failed, or
\* SaveEmail failed.
DataFails(s) ==
    \/ \E raw \in RawMessages : ParseFails(raw) /\ DataParse(s, raw)
    \/ \E fail \in FailPoints : DataSave(s, fail) /\ last'.err # ""

\* C12: when decoding or SaveEmail fails inside Data, Data returns an error,
\* the store is as before, no arrival event is started or published, the
\* session is ready for its next message and the other sessions are where
\* they were.
C12_FailedDataRejectsOnlyThatMessage ==
    [][\A s \in Sessions :
          DataFails(s) =>
              /\ last'.err = "error"
              /\ db' = db
              /\ savedIds' = savedIds
              /\ pending' = pending
              /\ published' = published
              /\ nextEv' = nextEv
              /\ sess'[s].pc = "idle"
              /\ \A t \in Sessions \ {s} : sess'[t] = sess[t]]_vars

\* SaveEmail failed at commit on a store that holds a message, while the other
\* session is between Parse and SaveEmail and an earlier event waits.
C12_Witness ==
    /\ last.op = "SaveEmail"
    /\ last.fail = "commit"
    /\ last.err = "error"
    /\ db.emails # {}
    /\ \E s \in Sessions : sess[s].pc = "save"
    /\ pending # {}

\* C13: a message that decodes is stored whatever the store holds; one without
\* Message-ID header is stored also when the store holds others without one.
C13_MessageWithoutExternalIdStored ==
    (last.op = "SaveEmail" /\ last.fail = "none" /\ last.email.MessageID = "")
        => last.err = ""

\* C14: of two stored messages, the one with the smaller id was not received
\* later than the other.
C14_ReceivedAtFollowsId ==
    \A a, b \in db.emails : a.id < b.id => a.received_at <= b.received_at

(***************************************************************************)
(* Properties of listing and searching. resp, when set, answers a request  *)
(* on the store as it is now.                                              *)
(***************************************************************************)
Row(id) == CHOOSE r \in db.emails : r.id = id

\* C15: ListEmails returns the messages by receivedAt descending and, where
\* receivedAt is equal, by id descending.
C15_ListOrderedByReceivedAtThenId ==
    (resp.op = "list" /\ resp.code = "") =>
        \A i, j \in 1..Len(resp.emails) :
            i < j => CanonicalBefore(Row(resp.emails[i]), Row(resp.emails[j]))

\* The predicates of a filter as the claim reads them: the sender, one of the
\* recipients and the subject contain the given text, and receivedAt lies
\* between the two times.
Satisfies(r, filter) ==
    /\ filter.From # <<>> => Contains(r.from_address, filter.From)
    /\ filter.To # <<>> =>
           \E i \in 1..Len(JsonUnmarshal(r.to_addresses)) :
               Contains(JsonUnmarshal(r.to_addresses)[i], filter.To)
    /\ filter.Subject # <<>> => Contains(r.subject, filter.Subject)
    /\ filter.Since # NoTime => r.received_at >= filter.Since
    /\ filter.Until # NoTime => r.received_at <= filter.Until

\* C16: ListEmails returns as total the number of stored messages that satisfy
\* every set predicate of the filter, whatever limit and offset are, and as
\* page the slice [offset, offset + limit) of those messages in order.
C16_ListCountsAndSlicesTheMatches ==
    (resp.op = "list" /\ resp.code = "") =>
        LET matching == {r \in db.emails : Satisfies(r, resp.filter)}
        IN /\ resp.total = Cardinality(matching)
           /\ \E q \in OrderByReceivedAtDesc(matching) :
                 resp.emails = RowIds(SubSeq(q, resp.offset + 1,
                                             Min(Len(q), resp.offset + resp.limit)))

\* C17: the limit with which the store is queried for a list or a search lies
\* between 1 and 100, whatever the limit parameter was, and the page is no
\* longer than that limit.
C17_LimitBetweenOneAndHundred ==
    (resp.op \in {"list", "search"} /\ resp.code = "") =>
        /\ resp.limit \in MinLimit..MaxLimit
        /\ resp.offset >= 0
        /\ Len(resp.emails) <= resp.limit

\* A request with a limit parameter below 1 was answered with one message of
\* several.
C17_Witness ==
    /\ resp.op \in {"list", "search"}
    /\ resp.code = ""
    /\ resp.rawLimit \in {Number(0), Number(-1)}
    /\ Len(resp.emails) = 1
    /\ resp.total >= 2

\* C18: a search request with an empty query is answered with the
\* invalid-request error, and the store and what was published stay as they
\* were.
C18_EmptySearchRejected ==
    [][\A req \in SearchPageRequests, fail \in BOOLEAN :
          (req.q = <<>> /\ handleSearchEmails(req, fail)) =>
              /\ resp'.code = "INVALID_REQUEST"
              /\ db' = db
              /\ pending' = pending]_vars

\* An empty search was rejected on a store that holds messages.
C18_Witness ==
    /\ resp.op = "search"
    /\ resp.query = <<>>
    /\ resp.code = "INVALID_REQUEST"
    /\ db.emails # {}

\* The query is a word of the subject of exactly one stored message and
\* occurs in no other subject and in no sender, recipient list or plain body.
OnlyInOneSubject(query, r) ==
    /\ r \in db.emails
    /\ LowerText(query) \in Tokens(r.subject)
    /\ \A o \in db.emails :
          /\ o # r => ~Contains(o.subject, query)
          /\ ~Contains(o.from_address, query)
          /\ ~Contains(o.to_addresses, query)
          /\ ~Contains(o.body_plain, query)

\* C19: a search for such a word returns exactly that message, with total 1,
\* with FTS5 and without.
C19_WordOfOneSubjectFindsThatMessage ==
    (resp.op = "search" /\ resp.query # <<>> /\ ~resp.fail) =>
        \A r \in db.emails :
            OnlyInOneSubject(resp.query, r) =>
                /\ resp.code = ""
                /\ resp.emails = <<r.id>>
                /\ resp.total = 1

\* C20: with FTS5 the index holds an entry for an id exactly when the message
\* with that id is stored, with the message's four texts; and a search
\* returns stored messages only, its total being the number of stored
\* messages that match.
C20_IndexMatchesStore ==
    hasFTS5 =>
        /\ {e.rowid : e \in db.fts} = {r.id : r \in db.emails}
        /\ \A e \in db.fts, r \in db.emails :
              e.rowid = r.id => /\ e.subject = r.subject
                                /\ e.from_address = r.from_address
                                /\ e.to_addresses = r.to_addresses
                                /\ e.body_plain = r.body_plain
        /\ (resp.op = "search" /\ resp.code = "") =>
              /\ \A i \in 1..Len(resp.emails) :
                    resp.emails[i] \in {r.id : r \in db.emails}
              /\ resp.total =
                    Cardinality({r \in db.emails :
                        LowerText(resp.query) \in
                            Tokens(r.subject) \cup Tokens(r.from_address)
                            \cup Tokens(r.to_addresses) \cup Tokens(r.body_plain)})

(***************************************************************************)
(* Properties of shutdown and of the ownership of the subscriber set.      *)
(***************************************************************************)
\* A step of Run: one pass through its select.
RunStep ==
    \/ RunBroadcast
    \/ \E c \in Clients : Register(c)
    \/ \E c \in Clients : Unregister(c)

\* C21: once Shutdown has been called, Run takes no further register,
\* unregister or broadcast request, and Run eventually returns.
C21_RunStopsAfterShutdown ==
    /\ [][shutdown => ~RunStep]_vars
    /\ (shutdown /\ hubRunning) ~> ~hubRunning

\* C23: h.clients changes only in a step of Run; Shutdown leaves it alone.
C23_OnlyRunTouchesClients ==
    [][clients' # clients => RunStep]_vars

(***************************************************************************)
(* Properties of the stored message.                                       *)
(***************************************************************************)
\* C30: the stored sender is the From header's address when the message has
\* one, else the envelope sender; the stored recipients are the To header's
\* addresses when there is at least one, else the recipients given by Rcpt
\* since the last Reset, in that order.
C30_EnvelopeFillsMissingHeaders ==
    [][\A s \in Sessions, fail \in FailPoints :
          (DataSave(s, fail) /\ last'.err = "") =>
              LET got == GetEmail(db', last'.ret).email
                  raw == sess[s].raw
              IN /\ got.From = IF raw.From # <<>> THEN raw.From ELSE sess[s].from
                 /\ got.To = IF Len(raw.To) > 0 THEN raw.To ELSE sess[s].given]_vars

\* A message without From and To headers was stored for the sender g and the
\* two recipients t and r, given in that order.
C30_Witness ==
    /\ last.op = "SaveEmail"
    /\ last.err = ""
    /\ last.email.Subject = <<"c", "a", "t">>
    /\ last.email.From = <<"g">>
    /\ last.email.To = <<<<"t">>, <<"r">>>>
    /\ GetEmail(db, last.ret).email.To = <<<<"t">>, <<"r">>>>

(***************************************************************************)
(* Properties of the goroutines around the store.                          *)
(***************************************************************************)
\* The writes in progress: the callers whose statement or transaction runs.
Writing == {w \in Callers : wr[w].pc = "running"}

\* C26: at most one write of the store is in progress at any time, the store
\* a write works on is the store as it was when the write began, and every
\* writer that waits for the connection gets it.
C26_OneWriterAtATime ==
    /\ [](/\ Cardinality(Writing) <= 1
          /\ \A w \in Writing : wr[w].snap = db)
    /\ \A w \in Callers : Waiting(w) ~> ~Waiting(w)

\* A transaction of a session is in progress on a store that holds a message
\* while the other session, the API and the retention sweep wait.
C26_Witness ==
    /\ \E s \in Sessions : wr[s].pc = "running"
    /\ \A w \in Callers : wr[w].pc # "running" => Waiting(w)
    /\ db.emails # {}

\* The message as it was accepted: the attachments of the message that was
\* read from the session with this Message-ID.
AcceptedWith(mid) == CHOOSE m \in WellFormed : m.MessageID = mid

\* C25: a GetEmail during which the message was deleted returns NotFound or
\* the message with all the attachments it was accepted with.
C25_GetEmailWholeOrNotFound ==
    (get.pc = "done" /\ get.overlapped) =>
        \/ get.res.err = "NotFound"
        \/ LET atts == AcceptedWith(get.res.email.MessageID).attachments
           IN /\ Len(get.res.email.Attachments) = Len(atts)
              /\ \A i \in 1..Len(atts) :
                    get.res.email.Attachments[i].Filename = atts[i].Filename

(***************************************************************************)
(* Properties of the API's deletes.                                        *)
(***************************************************************************)
\* The event a step has handed to Broadcast, if it has handed one.
Published(msg) == published' = Append(published, msg @@ [ev |-> nextEv + 1])

\* C24: handleDeleteEmail publishes "email.deleted" with the id when
\* DeleteEmail(id) succeeded and handleDeleteAllEmails publishes
\* "emails.cleared" when DeleteAllEmails succeeded; a delete that fails, with
\* NotFound or with an error of the store, publishes nothing and leaves the
\* store as it was; and no other step publishes one of the two events.
C24_RemovalEventsFollowDeletes ==
    [][/\ \A id \in 0..MaxId, fail \in BOOLEAN :
             handleDeleteEmail(id, fail) =>
                 IF last'.err = ""
                 THEN /\ Published([Type |-> "email.deleted", id |-> id])
                      /\ SelectEmail(db, id) # {}
                      /\ db'.emails = db.emails \ SelectEmail(db, id)
                 ELSE /\ published' = published
                      /\ db' = db
       /\ \A fail \in BOOLEAN :
             handleDeleteAllEmails(fail) =>
                 IF last'.err = ""
                 THEN /\ Published([Type |-> "emails.cleared"])
                      /\ db'.emails = {}
                 ELSE /\ published' = published
                      /\ db' = db
       /\ (/\ Len(published') > Len(published)
           /\ published'[Len(published')].Type \in {"email.deleted", "emails.cleared"})
             => /\ last'.op \in {"DeleteEmail", "DeleteAllEmails"}
                /\ last'.err = ""]_vars

\* A delete of a stored message and a clearing were published, and the last
\* delete asked for a message that is not stored.
C24_Witness ==
    /\ Len(published) >= 2
    /\ published[1].Type = "email.deleted"
    /\ published[1].id = 2
    /\ published[2].Type = "emails.cleared"
    /\ last.op = "DeleteEmail"
    /\ last.err = "NotFound"
    /\ db.emails # {}

(***************************************************************************)
(* Properties of a stored message.                                         *)
(***************************************************************************)
\* The row of the emails table with this id, as a set of at most one row.
RowOf(d, id) == {r \in d.emails : r.id = id}

\* A step that only reads the store: GetEmail, ListEmails, SearchEmails and
\* GetAttachment, seen by the result they leave behind (a write clears the
\* response of the request before it).
ReadStep == (resp' # resp /\ resp' # NoResp) \/ get' # get

\* C29: a row of the emails table that is there before and after a step has
\* the same value in every column, whatever the step is; the reads leave the
\* whole store as it is; a save adds rows and takes none away; a delete of
\* one message takes away no other; and the read column of a row is false
\* when the row is inserted, and since no statement updates it, it stays so.
C29_StoredMessageUnchanged ==
    [][/\ \A r \in db.emails : RowOf(db', r.id) \subseteq {r}
       /\ ReadStep => db' = db
       /\ \A fail \in FailPoints : DataSave("s1", fail) => db.emails \subseteq db'.emails
       /\ \A id \in 1..MaxId :
             DeleteEmail(id, FALSE) => db'.emails = db.emails \ RowOf(db, id)
       /\ \A r \in db'.emails \ db.emails : r.read = FALSE]_vars

\* Two messages are stored, another was stored between them and has been
\* deleted since, GetEmail has read the first and a request has listed both.
C29_Witness ==
    /\ Cardinality(db.emails) = 2
    /\ RowOf(db, 1) # {}
    /\ RowOf(db, 2) = {}
    /\ RowOf(db, 3) # {}
    /\ get.pc = "done"
    /\ get.id = 1
    /\ resp # NoResp
    /\ resp.op = "list"

(***************************************************************************)
(* Properties of the retention manager.                                    *)
(***************************************************************************)
\* A call of cleanup begins.
SweepBegins == mgr'.running > mgr.running

\* Stop has been called or the context has been cancelled, and Start is past
\* its first call of cleanup, which it makes without looking at either.
Signalled == (mgr.stop \/ mgr.cancelled) /\ mgr.pc # "new"

\* C22: once Stop has been called or the context is cancelled no call of
\* cleanup begins, a call of cleanup that is running then goes on to its
\* return (the delete by count follows the delete by age), and Start returns
\* in the end.
C22_StartReturnsAfterStop ==
    /\ [][Signalled => ~SweepBegins]_vars
    /\ [][(Signalled /\ mgr.pc = "age" /\ mgr'.pc # "age") => mgr'.pc = "count"]_vars
    /\ Signalled ~> (mgr.pc = "returned")

\* C27: the calls of cleanup that have begun and not returned are never more
\* than one, and a tick that arrives while one is running waits in the
\* channel: the next call begins only after that one has returned.
C27_OneSweepAtATime ==
    /\ [](mgr.running <= 1)
    /\ [][SweepBegins => mgr.running = 0]_vars

\* A tick has arrived while a sweep is between its two deletes, and the
\* delete by count has a message to remove.
C27_Witness ==
    /\ mgr.running = 1
    /\ mgr.tick
    /\ mgr.pc = "count"
    /\ Cardinality(db.emails) > MaxKeep

(***************************************************************************)
(* Properties of the shutdown.                                             *)
(***************************************************************************)
\* A session is inside SaveEmail, a sweep is inside cleanup, or a goroutine
\* "go s.server.onNewMail(email)" has not yet handed its event to the hub.
SessionsSaving == {s \in Sessions : sess[s].pc = "save"}

\* C28: when main calls store.Close no session is saving a message, no
\* sweep of the retention manager is running and no arrival event of a
\* stored message waits to be published.
C28_CloseAfterInFlight ==
    [][Close => /\ SessionsSaving = {}
                /\ mgr.running = 0
                /\ pending = {}]_vars

(***************************************************************************)
(* Properties of the parser on MIME structure.                             *)
(***************************************************************************)
\* Parse has returned for the message it was given.
Parsed == mime.pc = "done"

\* C31: for a single-part text/plain message in identity, base64 or
\* quoted-printable encoding Parse returns no error, BodyPlain is the text
\* the sender encoded, BodyHTML is empty, there is no attachment, and Size
\* is the number of bytes of the message.
C31_PlainBodyIsDecodedText ==
    (Parsed /\ mime.msg \in SinglePartPlain) =>
        /\ mime.out.err = ""
        /\ mime.out.email.BodyPlain = mime.msg.text
        /\ mime.out.email.BodyHTML = <<>>
        /\ mime.out.email.Attachments = <<>>
        /\ mime.out.email.Size = Len(mime.msg.head) + Len(mime.msg.body)

\* The leaves of a message in document order: the message itself when it is
\* no multipart, otherwise the leaves of its parts from first to last.
RECURSIVE LeavesOf(_)
RECURSIVE LeavesOfAll(_)
LeavesOf(entity) ==
    IF entity.mediaType.major = "multipart" THEN LeavesOfAll(entity.parts)
    ELSE <<entity>>

LeavesOfAll(parts) ==
    IF parts = <<>> THEN <<>>
    ELSE LeavesOf(Head(parts)) \o LeavesOfAll(Tail(parts))

\* A leaf whose disposition makes it an attachment, and the filename it
\* declares.
ByDisposition(leaf) ==
    \/ leaf.disposition = "attachment"
    \/ leaf.disposition = "inline" /\ leaf.filename # ""

Declared(leaf) ==
    IF leaf.filename # "" THEN leaf.filename
    ELSE IF leaf.name # "" THEN leaf.name
    ELSE "attachment"

\* A leaf that is a text of the given subtype and no attachment.
TextLeaf(leaf, minor) ==
    /\ ~ByDisposition(leaf)
    /\ leaf.mediaType = [major |-> "text", minor |-> minor]

TextLeaves(msg, minor) == SelectSeq(LeavesOf(msg), LAMBDA l : TextLeaf(l, minor))

AttachmentLeaves(msg) == SelectSeq(LeavesOf(msg), ByDisposition)

ParsedMultipart == Parsed /\ mime.msg \in MultipartMessages

MixedOfAlternativeAndAttachment ==
    Multipart("mixed", <<Multipart("alternative", <<PlainA, HtmlH>>), AttachedPdf>>)

\* C32: Parse collects over the whole tree of parts, at any depth and in
\* document order: the attachments returned are those of the leaves with an
\* attachment disposition, one for each in the order of the message, each
\* with its declared filename, type and size; a text slot is filled from a
\* text leaf of the message whenever there is one; and a mixed message of an
\* alternative (plain and html) and an attachment gives a plain body, an
\* html body and exactly the one attachment under its filename.
C32_WholeTreeInDocumentOrder ==
    ParsedMultipart =>
        LET out == mime.out.email
            att == AttachmentLeaves(mime.msg)
        IN /\ mime.out.err = ""
           /\ out.Attachments =
                  [i \in 1..Len(att) |-> [Filename |-> Declared(att[i]),
                                          ContentType |-> att[i].mediaType,
                                          Size |-> Len(att[i].text)]]
           /\ TextLeaves(mime.msg, "plain") # <<>> =>
                  \E i \in DOMAIN TextLeaves(mime.msg, "plain") :
                      out.BodyPlain = TextLeaves(mime.msg, "plain")[i].text
           /\ TextLeaves(mime.msg, "html") # <<>> =>
                  \E i \in DOMAIN TextLeaves(mime.msg, "html") :
                      out.BodyHTML = TextLeaves(mime.msg, "html")[i].text
           /\ mime.msg = MixedOfAlternativeAndAttachment =>
                  /\ out.BodyPlain # <<>>
                  /\ out.BodyHTML # <<>>
                  /\ Len(out.Attachments) = 1
                  /\ out.Attachments[1].Filename = "f.pdf"

\* Parse has returned for the mixed message of an alternative and an
\* attachment, with both bodies and the attachment.
C32_Witness ==
    /\ Parsed
    /\ mime.msg = MixedOfAlternativeAndAttachment
    /\ mime.out.email.BodyPlain = <<97>>
    /\ mime.out.email.BodyHTML = <<104>>
    /\ Len(mime.out.email.Attachments) = 1

\* The text of the last element of a sequence of leaves, nothing for none.
LastText(leaves) == IF leaves = <<>> THEN <<>> ELSE leaves[Len(leaves)].text

\* C33: of several text parts of one subtype the last in document order
\* wins: BodyPlain is the text of the last text/plain leaf and of no other,
\* BodyHTML that of the last text/html leaf, and a slot with no leaf of its
\* subtype stays empty.
C33_LastTextPartWins ==
    ParsedMultipart =>
        /\ mime.out.email.BodyPlain = LastText(TextLeaves(mime.msg, "plain"))
        /\ mime.out.email.BodyHTML = LastText(TextLeaves(mime.msg, "html"))

\* Parse has returned for a message of two different plain texts and no
\* html: the plain body is the second text, the html body is empty.
C33_Witness ==
    /\ Parsed
    /\ mime.msg = Multipart("mixed", <<PlainA, PlainB>>)
    /\ mime.out.email.BodyPlain = <<98>>
    /\ mime.out.email.BodyHTML = <<>>

\* A leaf the specification has captured as an attachment: by its
\* disposition, or because its content type is neither text nor multipart.
Captured(leaf) == ByDisposition(leaf) \/ leaf.mediaType.major # "text"

\* C34: every leaf that is an attachment by disposition or whose content
\* type is neither text nor multipart is among the attachments returned;
\* none of them is dropped.
C34_NoLeafDiscarded ==
    ParsedMultipart =>
        Len(mime.out.email.Attachments) =
            Len(SelectSeq(LeavesOf(mime.msg), Captured))

(***************************************************************************)
(* Properties of the error responses of the API.                           *)
(***************************************************************************)
\* C35: a response to a failure of the store carries success = false and
\* the code STORAGE_ERROR, and its message is no text of an internal error:
\* it is the same whatever error the store returned.
C35_NoInternalErrorText ==
    (resp # NoResp /\ resp.code = "STORAGE_ERROR") =>
        /\ resp.success = FALSE
        /\ resp.message \notin StorageErrors \cup {"fts5: syntax error"}

(***************************************************************************)
(* Properties of the send queues of the hub.                               *)
(***************************************************************************)
\* C36: in every step of the hub, whatever the order of register,
\* unregister, overflow and Shutdown, no client's send channel is closed a
\* second time, nothing is placed on a send channel that was closed, and
\* the unregister of a client that is no longer in h.clients (removed by
\* overflow or by Shutdown) changes neither the clients nor any channel.
C36_SendClosedOnceAndNeverUsedAfter ==
    [][\A c \in Clients :
          /\ closeCount'[c] <= 1
          /\ closed[c] => /\ closed'[c]
                          /\ received'[c] = received[c]
                          /\ Len(send'[c]) <= Len(send[c])
          /\ (Unregister(c) /\ c \notin clients) =>
                 UNCHANGED <<clients, send, closed, closeCount, broadcast>>]_vars

\* A client that Run removed for its full channel, and another that
\* Shutdown removed, have both sent their unregister since.
C36_Witness ==
    \E c, d \in Clients :
        /\ c # d
        /\ \E i \in DOMAIN handled : c \in handled[i].full
        /\ cstate[c].phase = "left"
        /\ closeCount[c] = 1
        /\ shutdown
        /\ cstate[d].phase = "left"
        /\ closeCount[d] = 0

(***************************************************************************)
(* Properties of the order of the events.                                  *)
(***************************************************************************)
\* The message that was published as event number ev.
EventOf(ev) == published[CHOOSE i \in DOMAIN published : published[i].ev = ev]

\* The client was in h.clients when Run took the first event from the hub's
\* channel: no event was handled before it was connected.
ConnectedFromFirstEvent(c) ==
    handled # <<>> => c \in handled[1].roomy \cup handled[1].full

\* C37: a subscriber that was connected before the first event, on a hub
\* that dropped no event, is never sent the removal event of a message id
\* before it was sent the arrival event of that id (its writePump writes the
\* events in the order Run placed them on its channel).
C37_ArrivalBeforeRemoval ==
    \A c \in Clients :
        (ConnectedFromFirstEvent(c) /\ dropped = {}) =>
            \A i \in DOMAIN received[c] :
                EventOf(received[c][i]).Type = "email.deleted" =>
                    \E j \in 1..(i - 1) :
                        /\ EventOf(received[c][j]).Type = "email.new"
                        /\ EventOf(received[c][j]).id = EventOf(received[c][i]).id

(***************************************************************************)
(* Properties of the sweeps under a configuration.                         *)
(***************************************************************************)
\* The step is a call of the store's delete by age, or by count: the store
\* records the call as its last operation.
CallsDeleteOld == last' # last /\ last'.op = "DeleteOldEmails"

CallsDeleteExcess == last' # last /\ last'.op = "DeleteExcessEmails"

\* The step is one of cleanup.
SweepStep == mgr.pc \in {"age", "count"} /\ mgr' # mgr /\ mgr'.tick = mgr.tick

\* C38: cleanup calls DeleteOldEmails only when MaxAge is positive and
\* DeleteExcessEmails only when MaxCount is positive; with the policy
\* disabled no sweep begins and the manager deletes nothing; and a sweep
\* under a zero or negative MaxCount leaves every message that is not
\* too old in the store.
C38_SettingsGuardTheDeletes ==
    [][/\ CallsDeleteOld => mgr.config.Enabled /\ mgr.config.MaxAge > 0
       /\ CallsDeleteExcess => mgr.config.Enabled /\ mgr.config.MaxCount > 0
       /\ ~mgr.config.Enabled => /\ mgr'.pc \in {"new", "returned"}
                                 /\ mgr'.running = 0
                                 /\ db.emails \subseteq db'.emails
       /\ (SweepStep /\ mgr.config.MaxCount <= 0) =>
              {e \in db.emails : \/ mgr.config.MaxAge <= 0
                                 \/ e.received_at >= SweepBefore(mgr.config)}
                  \subseteq db'.emails]_vars

\* A sweep under a positive age and a count of zero has ended with messages
\* in the store.
C38_Witness ==
    /\ mgr.config.Enabled
    /\ mgr.config.MaxAge > 0
    /\ mgr.config.MaxCount = 0
    /\ mgr.pc = "select"
    /\ last.op = "DeleteOldEmails"
    /\ last.ret > 0
    /\ db.emails # {}

\* The step in which cleanup returns.
SweepEnds == mgr.pc \in {"age", "count"} /\ mgr'.pc = "select"

\* C39: in a sweep the delete by age comes first and the delete by count
\* second, and the second is reached whatever the first returned. When the
\* sweep ends and its delete by count (MaxCount > 0) returned no error, the
\* store holds at most MaxCount messages. When the sweep ends and its delete
\* by age (MaxAge > 0) returned no error, nothing was stored since and the
\* delete by count, if any, returned no error, the store holds no message
\* received before the sweep's time less MaxAge.
C39_SweepEnforcesThePolicy ==
    [][/\ CallsDeleteOld => mgr.pc = "age"
       /\ CallsDeleteExcess => mgr.pc = "count"
       /\ (mgr.pc = "age" /\ mgr'.pc # "age") => mgr'.pc = "count"
       /\ (SweepEnds /\ mgr.config.MaxCount > 0 /\ last'.err = "") =>
              /\ last'.op = "DeleteExcessEmails"
              /\ Cardinality(db'.emails) <= mgr.config.MaxCount
       /\ (/\ SweepEnds
           /\ mgr.config.MaxAge > 0
           /\ last.op = "DeleteOldEmails"
           /\ last.err = ""
           /\ last'.err = "") =>
              \A e \in db'.emails : e.received_at >= last.arg]_vars

\* A sweep under a positive age and a positive count has ended: its delete
\* by count removed a message and left MaxCount of them, after a delete by
\* age had removed one.
C39_Witness ==
    /\ mgr.config.MaxAge > 0
    /\ mgr.config.MaxCount > 0
    /\ mgr.pc = "select"
    /\ last.op = "DeleteExcessEmails"
    /\ last.err = ""
    /\ last.ret > 0
    /\ Cardinality(db.emails) = mgr.config.MaxCount
    /\ Cardinality(last.pre.emails) + 1 = db.seq

====
